---- MODULE Spec2Model ----
(***************************************************************************)
(* Key-resolution cache and background download queue of                   *)
(* src/src/audio_file_manager.cpp (Arduino/ESP32).                         *)
(*                                                                         *)
(* C strings are sequences of one-character strings.  unsigned long is 32  *)
(* bits wide on the target; a 32-bit value is the pair <<hi, lo>> of its   *)
(* 16-bit halves, so that every intermediate result fits TLC's integers.   *)
(*                                                                         *)
(* lastCacheTime is written by the save, load, initialize and clear        *)
(* functions and read by none; it is not part of the state here.           *)
(***************************************************************************)
EXTENDS Integers, Sequences, FiniteSets, TLC

\* ------------------------------------------------------------------------
\* Configuration (include/audio_file_manager.h)
\* ------------------------------------------------------------------------
\* 50 and 20 in the header; the arrays are kept short here
MAX_KNOWN_SEQUENCES == 5
MAX_DOWNLOAD_QUEUE == 2
MAX_FILENAME_LENGTH == 64
MAX_HTTP_RESPONSE_SIZE == 8192
CACHE_VALIDITY_HOURS == 168
DOWNLOAD_QUEUE_CHECK_INTERVAL_MS == 1000
\* sizeof(buffer) in processDownloadQueue
BUFFER_SIZE == 1024
\* sizeof(AudioDownloadItem::url), ::localPath, ::description
URL_SIZE == 256
LOCAL_PATH_SIZE == 128
DESCRIPTION_SIZE == 64
\* for (counter = 1; counter < 1000; counter++)
COLLISION_LIMIT == 1000
\* number of files the card holds before SD.open(.., FILE_WRITE) of a new
\* file fails
MaxFiles == 2
\* number of restarts of the device
MaxBoots == 2

Min(a, b) == IF a < b THEN a ELSE b

\* ------------------------------------------------------------------------
\* 32-bit unsigned arithmetic on <<hi, lo>> pairs
\* ------------------------------------------------------------------------
W16 == 65536

U32(n) == <<n \div W16, n % W16>>

U32Ge(a, b) == a[1] > b[1] \/ (a[1] = b[1] /\ a[2] >= b[2])

U32Lt(a, b) == ~U32Ge(a, b)

U32Gt(a, b) == U32Lt(b, a)

\* a - b modulo 2^32
U32Sub(a, b) ==
    LET lo == a[2] - b[2]
        borrow == IF lo < 0 THEN 1 ELSE 0
    IN  <<(a[1] - b[1] - borrow + W16) % W16, (lo + W16) % W16>>

\* a + b modulo 2^32
U32Add(a, b) ==
    LET lo == a[2] + b[2]
    IN  <<(a[1] + b[1] + lo \div W16) % W16, lo % W16>>

\* a * 33 + c modulo 2^32, the step of ((hash << 5) + hash) + url[i]
U32Mul33Add(a, c) ==
    LET lo == a[2] * 33 + c
    IN  <<(a[1] * 33 + lo \div W16) % W16, lo % W16>>

\* ------------------------------------------------------------------------
\* Characters and strings
\* ------------------------------------------------------------------------
Lower == <<"a","b","c","d","e","f","g","h","i","j","k","l","m",
           "n","o","p","q","r","s","t","u","v","w","x","y","z">>
Upper == <<"A","B","C","D","E","F","G","H","I","J","K","L","M",
           "N","O","P","Q","R","S","T","U","V","W","X","Y","Z">>
Digit == <<"0","1","2","3","4","5","6","7","8","9">>
HexDigit == Digit \o <<"a","b","c","d","e","f">>

IndexOf(seq, c) == CHOOSE i \in 1..Len(seq) : seq[i] = c

InSeq(seq, c) == \E i \in 1..Len(seq) : seq[i] = c

isalnum(c) == InSeq(Lower, c) \/ InSeq(Upper, c) \/ InSeq(Digit, c)

\* ASCII code of a character of the model's alphabet
Ascii(c) ==
    IF InSeq(Lower, c) THEN 96 + IndexOf(Lower, c)
    ELSE IF InSeq(Upper, c) THEN 64 + IndexOf(Upper, c)
    ELSE IF InSeq(Digit, c) THEN 47 + IndexOf(Digit, c)
    ELSE CASE c = " " -> 32
           [] c = "-" -> 45
           [] c = "." -> 46
           [] c = "/" -> 47
           [] c = ":" -> 58
           [] c = "?" -> 63
           [] c = "_" -> 95

Take(s, n) == SubSeq(s, 1, Min(Len(s), n))

\* strncmp(s, prefix, strlen(prefix)) == 0
HasPrefix(s, prefix) ==
    Len(s) >= Len(prefix) /\ SubSeq(s, 1, Len(prefix)) = prefix

\* printf("%d") of a small non-negative int
RECURSIVE Dec(_)
Dec(n) == IF n < 10 THEN <<Digit[n + 1]>>
          ELSE Dec(n \div 10) \o <<Digit[(n % 10) + 1]>>

Hex4(h) == <<HexDigit[(h \div 4096) + 1], HexDigit[((h \div 256) % 16) + 1],
             HexDigit[((h \div 16) % 16) + 1], HexDigit[(h % 16) + 1]>>

\* printf("%08lx")
Hex8(h) == Hex4(h[1]) \o Hex4(h[2])

AUDIO_FILES_DIR == <<"/","a","u","d","i","o">>
HTTP_PREFIX == <<"h","t","t","p",":","/","/">>
HTTPS_PREFIX == <<"h","t","t","p","s",":","/","/">>
AUDIO_ == <<"a","u","d","i","o","_">>
DOT_MP3 == <<".","m","p","3">>

\* ------------------------------------------------------------------------
\* State
\* ------------------------------------------------------------------------
VARIABLES
    knownFiles,          \* records of knownFiles[0 .. knownSequenceCount-1]
    knownSequenceCount,
    sdCardInitialized,
    downloadQueue,       \* array [0 .. MAX_DOWNLOAD_QUEUE-1] of AudioDownloadItem;
                         \* a slot at or above downloadQueueCount keeps what
                         \* was last written to it
    downloadQueueCount,
    downloadQueueIndex,
    lastDownloadCheck,   \* static local of processAudioDownloadQueue
    now,                 \* millis()
    wifiConnected,       \* WiFi.status() == WL_CONNECTED
    sdPresent,           \* a working card is attached: SD.begin and SD I/O succeed
    audioDir,            \* AUDIO_FILES_DIR exists on the card
    files,               \* audio files on the card: path -> what was written
    jsonFile,            \* content of AUDIO_JSON_FILE, or NoFile
    tsFile,              \* content of CACHE_TIMESTAMP_FILE, or NoStamp
    gameState,           \* main.ino: the state of the round
    player1LastPress,    \* [timestamp, value, hasPressed]
    player2LastPress,
    firstPressTime,
    isPlayingAudio,      \* audio_file_player.cpp
    audioPlayer,         \* the path audioPlayer->playPath was last given
    isConfigMode,        \* wifi_manager.cpp: the portal is up
    wifiMode,            \* WiFi.getMode(): "STA", "AP" or "OFF"
    connectionLogged,    \* static locals of handleWiFiLoop
    otaStarted,
    connectionStartTime,
    portalStartTime,
    downSince,           \* history: millis() when the station lost the
                         \* network, Connected while it has it
    boots,               \* history: the number of restarts so far
    last                 \* the call that has just returned (its name, arguments
                         \* and results), Idle once the caller has gone on

progVars == <<knownFiles, knownSequenceCount, sdCardInitialized,
              downloadQueue, downloadQueueCount, downloadQueueIndex,
              lastDownloadCheck>>
envVars == <<now, wifiConnected, sdPresent, audioDir, files, jsonFile, tsFile>>
queueVars == <<downloadQueue, downloadQueueCount, downloadQueueIndex>>
registryVars == <<knownFiles, knownSequenceCount>>
gameVars == <<gameState, player1LastPress, player2LastPress, firstPressTime>>
playerVars == <<isPlayingAudio, audioPlayer>>
wifiVars == <<isConfigMode, wifiMode, connectionLogged, otaStarted,
              connectionStartTime, portalStartTime, downSince>>
appVars == <<gameVars, playerVars, wifiVars, boots>>
vars == <<progVars, envVars, appVars, last>>

\* a file that does not exist: the registry file, the timestamp file
NoFile == [wellFormed |-> FALSE, length |-> -1, doc |-> <<>>]
NoStamp == <<-1, -1>>
EmptyStr == <<>>

\* ------------------------------------------------------------------------
\* Storage contract (SD)
\* ------------------------------------------------------------------------
\* SD.exists(path) for a path below AUDIO_FILES_DIR
SDExists(path) == sdPresent /\ audioDir /\ path \in DOMAIN files

\* initializeSDCard(): its result, which is also the new sdCardInitialized
InitializeSDCard(init) == init \/ sdPresent

\* ------------------------------------------------------------------------
\* Locator codec
\* ------------------------------------------------------------------------
\* strrchr(url, '/'): index of the last slash, 0 when there is none
LastSlash(url) ==
    LET S == {i \in 1..Len(url) : url[i] = "/"}
    IN  IF S = {} THEN 0 ELSE CHOOSE i \in S : \A j \in S : j <= i

UrlFilename(url) == SubSeq(url, LastSlash(url) + 1, Len(url))

\* the cleaning loop of urlToFilename
RECURSIVE CleanFrom(_, _, _)
CleanFrom(s, i, out) ==
    IF i > Len(s) \/ Len(out) >= MAX_FILENAME_LENGTH - 1 THEN out
    ELSE LET c == s[i]
         IN  IF isalnum(c) \/ c = "." \/ c = "-" \/ c = "_"
                THEN CleanFrom(s, i + 1, Append(out, c))
             ELSE IF c = " " THEN CleanFrom(s, i + 1, Append(out, "_"))
             ELSE CleanFrom(s, i + 1, out)

CleanFilename(s) == CleanFrom(s, 1, <<>>)

RECURSIVE HashFrom(_, _, _)
HashFrom(url, i, h) ==
    IF i > Len(url) THEN h
    ELSE HashFrom(url, i + 1, U32Mul33Add(h, Ascii(url[i])))

\* unsigned long hash = 5381; hash = ((hash << 5) + hash) + url[i]
UrlHash(url) == HashFrom(url, 1, U32(5381))

BaseFilename(url) ==
    Take(AUDIO_ \o Hex8(UrlHash(url)) \o DOT_MP3, MAX_FILENAME_LENGTH - 1)

CounterFilename(url, counter) ==
    Take(AUDIO_ \o Hex8(UrlHash(url)) \o <<"_">> \o Dec(counter) \o DOT_MP3,
         MAX_FILENAME_LENGTH - 1)

\* snprintf(path, 128, "%s/%s", AUDIO_FILES_DIR, filename)
PathOf(filename) ==
    Take(AUDIO_FILES_DIR \o <<"/">> \o filename, LOCAL_PATH_SIZE - 1)

\* the first counter in counter..COLLISION_LIMIT-1 whose name is unused,
\* COLLISION_LIMIT when there is none
RECURSIVE FirstUnused(_, _)
FirstUnused(url, counter) ==
    IF counter >= COLLISION_LIMIT THEN COLLISION_LIMIT
    ELSE IF ~SDExists(PathOf(CounterFilename(url, counter))) THEN counter
    ELSE FirstUnused(url, counter + 1)

\* the first branch of urlToFilename applies: the last path segment has a
\* dot and cleans to a non-empty name
HasProperFilename(url) ==
    /\ Len(UrlFilename(url)) > 0
    /\ InSeq(UrlFilename(url), ".")
    /\ Len(CleanFilename(UrlFilename(url))) > 0

\* urlToFilename(url, filename): [ok, filename, init] where init is
\* sdCardInitialized after the call
UrlToFilename(url, init) ==
    IF HasProperFilename(url)
        THEN [ok |-> TRUE, filename |-> CleanFilename(UrlFilename(url)),
              init |-> init]
    ELSE IF InitializeSDCard(init) /\ SDExists(PathOf(BaseFilename(url)))
             /\ FirstUnused(url, 1) < COLLISION_LIMIT
        THEN [ok |-> TRUE,
              filename |-> CounterFilename(url, FirstUnused(url, 1)),
              init |-> TRUE]
    ELSE [ok |-> TRUE, filename |-> BaseFilename(url),
          init |-> InitializeSDCard(init)]

\* getLocalAudioPath after urlToFilename has returned f
LocalPathOf(f) ==
    IF ~f.ok THEN [ok |-> FALSE, path |-> EmptyStr, init |-> f.init]
    ELSE [ok |-> TRUE, path |-> PathOf(f.filename), init |-> f.init]

\* getLocalAudioPath(url, localPath): [ok, path, init]
GetLocalAudioPath(url, init) == LocalPathOf(UrlToFilename(url, init))

\* audioFileExists after getLocalAudioPath has returned p
ExistsAt(p) ==
    IF ~p.ok THEN [ret |-> FALSE, init |-> p.init]
    ELSE [ret |-> SDExists(p.path), init |-> p.init]

\* audioFileExists(url): [ret, init]
AudioFileExists(url, init) ==
    IF ~InitializeSDCard(init) THEN [ret |-> FALSE, init |-> FALSE]
    ELSE ExistsAt(GetLocalAudioPath(url, TRUE))

\* ------------------------------------------------------------------------
\* Download queue
\* ------------------------------------------------------------------------
QueueSlots == 0..(MAX_DOWNLOAD_QUEUE - 1)

\* a zero-initialised AudioDownloadItem
BlankItem == [url |-> EmptyStr, localPath |-> EmptyStr,
              description |-> EmptyStr, inProgress |-> FALSE]

UNKNOWN == <<"U","n","k","n","o","w","n">>

\* the capacity test off by one: downloadQueueCount > MAX_DOWNLOAD_QUEUE
QueueFull_offByOne == downloadQueueCount > MAX_DOWNLOAD_QUEUE

\* downloadQueueCount >= MAX_DOWNLOAD_QUEUE
QueueFull == downloadQueueCount >= MAX_DOWNLOAD_QUEUE

\* the search run over the whole array, the slots past the count included
AlreadyQueued_allSlots(url) ==
    \E i \in 0..(MAX_DOWNLOAD_QUEUE - 1) : downloadQueue[i].url = url

\* the search "Check if URL is already in queue"
AlreadyQueued(url) ==
    \E i \in 0..(downloadQueueCount - 1) : downloadQueue[i].url = url

\* the part of addToDownloadQueue that fills the item, given p, the result
\* of getLocalAudioPath(url, item->localPath)
AddNewItem(url, description, p) ==
    IF ~p.ok
        THEN [ret |-> FALSE, queue |-> downloadQueue,
              count |-> downloadQueueCount, init |-> p.init]
    ELSE [ret |-> TRUE,
          queue |-> [downloadQueue EXCEPT ![downloadQueueCount] =
              [url |-> Take(url, URL_SIZE - 1),
               localPath |-> p.path,
               description |-> Take(description, DESCRIPTION_SIZE - 1),
               inProgress |-> FALSE]],
          count |-> downloadQueueCount + 1, init |-> p.init]

\* addToDownloadQueue(url, description): [ret, queue, count, init]
AddToDownloadQueue(url, description, init) ==
    IF QueueFull
        THEN [ret |-> FALSE, queue |-> downloadQueue,
              count |-> downloadQueueCount, init |-> init]
    ELSE IF AlreadyQueued(url)
        THEN [ret |-> TRUE, queue |-> downloadQueue,
              count |-> downloadQueueCount, init |-> init]
    ELSE AddNewItem(url, description, GetLocalAudioPath(url, init))

\* getDownloadQueueCount(), getTotalDownloadQueueSize(), isDownloadQueueEmpty()
getDownloadQueueCount == downloadQueueCount - downloadQueueIndex
\* the total taken for the number of items left
getTotalDownloadQueueSize_remaining == downloadQueueCount - downloadQueueIndex

getTotalDownloadQueueSize == downloadQueueCount
isDownloadQueueEmpty == downloadQueueIndex >= downloadQueueCount

\* the chunk loop of processDownloadQueue.  bursts lists what
\* stream->available() offers, in arrival order, until nothing more comes.
\* Result: [total, chunks, left, waiting], the bytes written, the number of
\* read/write chunks, the final contentLength, and whether the loop still
\* waits for data when nothing more comes: it then goes round delay(1)
\* until http.connected() is false.
RECURSIVE TransferLoop(_, _, _, _)
TransferLoop(contentLength, bursts, total, chunks) ==
    IF ~(contentLength > 0 \/ contentLength = -1)
        THEN [total |-> total, chunks |-> chunks, left |-> contentLength,
              waiting |-> FALSE]
    ELSE IF bursts = <<>>
        THEN [total |-> total, chunks |-> chunks, left |-> contentLength,
              waiting |-> TRUE]
    ELSE LET availableBytes == Head(bursts)
             bytesRead == Min(availableBytes, BUFFER_SIZE)
             rest == IF availableBytes > bytesRead
                        THEN <<availableBytes - bytesRead>> \o Tail(bursts)
                        ELSE Tail(bursts)
         IN  TransferLoop(IF contentLength > 0 THEN contentLength - bytesRead
                                               ELSE contentLength,
                          rest, total + bytesRead, chunks + 1)

\* what one HTTP GET of an audio file can deliver: the payload's length, the
\* declared Content-Length (-1 when absent), the bursts that arrive, and
\* whether the connection closes after them (closes) or stays open
Transfers ==
    { [payload |-> 300,  declared |-> 300,  bursts |-> <<300>>,
       closes |-> TRUE],
      [payload |-> 2500, declared |-> 2500, bursts |-> <<2500>>,
       closes |-> TRUE],
      [payload |-> 2500, declared |-> -1,   bursts |-> <<1500, 1000>>,
       closes |-> TRUE],
      [payload |-> 2500, declared |-> 2500, bursts |-> <<1000>>,
       closes |-> TRUE],
      [payload |-> 0,    declared |-> 0,    bursts |-> <<>>,
       closes |-> TRUE] }

\* SD.open(path, FILE_WRITE) of an audio file can succeed: the card works,
\* and the file exists already or the card has room for one more
CanCreate(path) ==
    sdPresent /\ (path \in DOMAIN files \/ Cardinality(DOMAIN files) < MaxFiles)

\* return true, whatever the status
DrainResult_always(httpCode) == TRUE

\* return (httpCode == 200)
DrainResult(httpCode) == httpCode = 200

\* downloadQueueIndex += 2
AdvanceCursor_twice(index) == index + 2

\* downloadQueueIndex++
AdvanceCursor(index) == index + 1

\* the call of processDownloadQueue that never leaves the chunk loop: the
\* loop waits for data on a connection that stays open.  The item is in
\* progress, the cursor is on it and the file holds what was written
StuckInLoop(taken, item, httpCode, r) ==
    [taken EXCEPT
        !.began = TRUE, !.dir = TRUE, !.status = httpCode, !.opened = TRUE,
        !.hung = TRUE,
        !.chunks = r.chunks, !.total = r.total,
        !.queue = [downloadQueue EXCEPT
                      ![downloadQueueIndex].inProgress = TRUE],
        !.index = downloadQueueIndex,
        !.files = [p \in DOMAIN files \cup {item.localPath} |->
                      IF p = item.localPath
                         THEN [src |-> item.url, complete |-> FALSE]
                      ELSE files[p]]]

\* the result of a call of processDownloadQueue that has taken the item at
\* the cursor and has run the chunk loop with result r
Downloaded(taken, item, httpCode, t, r) ==
    IF r.waiting /\ ~t.closes THEN StuckInLoop(taken, item, httpCode, r)
    ELSE
    [taken EXCEPT
        !.began = TRUE, !.dir = TRUE, !.status = httpCode, !.opened = TRUE,
        !.ret = DrainResult(httpCode),
        !.chunks = r.chunks, !.total = r.total,
        !.files = [p \in DOMAIN files \cup {item.localPath} |->
                      IF p = item.localPath
                         THEN [src |-> item.url,
                               complete |-> r.total = t.payload]
                      ELSE files[p]]]

\* a status other than 200 leaves the cursor on the item
DownloadItem_retriesOnFailure(taken, item, mkdirOk, httpCode, openOk, t) ==
    IF ~(sdPresent /\ audioDir) /\ ~(sdPresent /\ mkdirOk)
        THEN taken
    ELSE IF httpCode # 200
        THEN [taken EXCEPT !.began = TRUE, !.dir = TRUE,
                           !.status = httpCode,
                           !.ret = DrainResult(httpCode),
                           !.index = downloadQueueIndex]
    ELSE IF ~(openOk /\ CanCreate(item.localPath))
        THEN [taken EXCEPT !.began = TRUE, !.dir = TRUE,
                           !.status = httpCode]
    ELSE Downloaded(taken, item, httpCode, t,
                    TransferLoop(t.declared, t.bursts, 0, 0))

\* the return after SD.open has failed without "item->inProgress = false"
DownloadItem_leavesInProgress(taken, item, mkdirOk, httpCode, openOk, t) ==
    IF ~(sdPresent /\ audioDir) /\ ~(sdPresent /\ mkdirOk)
        THEN taken
    ELSE IF httpCode # 200
        THEN [taken EXCEPT !.began = TRUE, !.dir = TRUE,
                           !.status = httpCode,
                           !.ret = DrainResult(httpCode)]
    ELSE IF ~(openOk /\ CanCreate(item.localPath))
        THEN [taken EXCEPT !.began = TRUE, !.dir = TRUE,
                           !.status = httpCode,
                           !.queue = [downloadQueue EXCEPT
                               ![downloadQueueIndex].inProgress = TRUE]]
    ELSE Downloaded(taken, item, httpCode, t,
                    TransferLoop(t.declared, t.bursts, 0, 0))

\* the part of processDownloadQueue that follows "item->inProgress = true",
\* where taken is the result of a call that does no more than skip the item
DownloadItem(taken, item, mkdirOk, httpCode, openOk, t) ==
    IF ~(sdPresent /\ audioDir) /\ ~(sdPresent /\ mkdirOk)
        \* directory missing and SD.mkdir failed: skip this item
        THEN taken
    ELSE IF httpCode # 200
        THEN [taken EXCEPT !.began = TRUE, !.dir = TRUE,
                           !.status = httpCode,
                           !.ret = DrainResult(httpCode)]
    ELSE IF ~(openOk /\ CanCreate(item.localPath))
        THEN [taken EXCEPT !.began = TRUE, !.dir = TRUE,
                           !.status = httpCode]
    ELSE Downloaded(taken, item, httpCode, t,
                    TransferLoop(t.declared, t.bursts, 0, 0))

\* an early return that skips the item, as the failed mkdir does
NothingDone_skips ==
    [ret |-> FALSE, attempted |-> FALSE, began |-> FALSE, status |-> 0,
     opened |-> FALSE, chunks |-> 0, total |-> 0, hung |-> FALSE,
     queue |-> downloadQueue, index |-> downloadQueueIndex + 1,
     init |-> sdCardInitialized, dir |-> audioDir, files |-> files]

\* the result of a call of processDownloadQueue that does nothing
NothingDone ==
    [ret |-> FALSE, attempted |-> FALSE, began |-> FALSE, status |-> 0,
     opened |-> FALSE, chunks |-> 0, total |-> 0, hung |-> FALSE,
     queue |-> downloadQueue, index |-> downloadQueueIndex,
     init |-> sdCardInitialized, dir |-> audioDir, files |-> files]

\* processDownloadQueue() with the outcomes of the calls it makes: mkdirOk
\* (SD.mkdir), httpCode (http.GET), openOk (SD.open), t (the transfer).
\* Result: the return value, what the call did (attempted: an item was
\* taken; began: a GET was issued; status: the code it returned, 0 without
\* a GET; opened: the destination file was opened; chunks, total: the
\* chunk loop) and the new values of the variables it writes.
ProcessDownloadQueue(mkdirOk, httpCode, openOk, t) ==
    IF downloadQueueIndex >= downloadQueueCount THEN NothingDone
    ELSE IF ~wifiConnected THEN NothingDone
    ELSE IF ~InitializeSDCard(sdCardInitialized) THEN NothingDone
    ELSE IF downloadQueue[downloadQueueIndex].inProgress
        THEN [NothingDone EXCEPT !.init = TRUE]
    ELSE DownloadItem(
            [NothingDone EXCEPT
                !.attempted = TRUE, !.init = TRUE,
                !.queue = [downloadQueue EXCEPT
                              ![downloadQueueIndex].inProgress = FALSE],
                !.index = AdvanceCursor(downloadQueueIndex)],
            downloadQueue[downloadQueueIndex], mkdirOk, httpCode, openOk, t)

\* ------------------------------------------------------------------------
\* Registry store
\* ------------------------------------------------------------------------
\* seqData[field] | fallback: has is the set of fields the member has
OrDefault(m, field, fallback) ==
    IF field \in m.has THEN m[field] ELSE fallback

TYPE_UNKNOWN == "unknown"

\* the loop with the limit tested by > in place of >=
RECURSIVE ParseFrom_offByOne(_, _, _)
ParseFrom_offByOne(doc, i, known) ==
    IF i > Len(doc) \/ Len(known) > MAX_KNOWN_SEQUENCES THEN known
    ELSE ParseFrom_offByOne(doc, i + 1,
            Append(known,
                   [audioKey |-> doc[i].key,
                    description |-> OrDefault(doc[i], "description", UNKNOWN),
                    type |-> OrDefault(doc[i], "type", TYPE_UNKNOWN),
                    path |-> OrDefault(doc[i], "path", EmptyStr)]))

\* the loop "for (JsonPair kv : root)" of loadKnownSequencesFromSDCard and
\* downloadAudio, started with knownSequenceCount = 0
RECURSIVE ParseFrom(_, _, _)
ParseFrom(doc, i, known) ==
    IF i > Len(doc) \/ Len(known) >= MAX_KNOWN_SEQUENCES THEN known
    ELSE ParseFrom(doc, i + 1,
            Append(known,
                   [audioKey |-> doc[i].key,
                    description |-> OrDefault(doc[i], "description", UNKNOWN),
                    type |-> OrDefault(doc[i], "type", TYPE_UNKNOWN),
                    path |-> OrDefault(doc[i], "path", EmptyStr)]))

ParseRecords(doc) == ParseFrom(doc, 1, <<>>)

\* deserializeJson(doc, text) for a text that is one JSON object, text being
\* its members as written: a key met again replaces the member it named
\* first, where that one stands
RECURSIVE DeserializeFrom(_, _, _)
DeserializeFrom(text, i, doc) ==
    IF i > Len(text) THEN doc
    ELSE DeserializeFrom(text, i + 1,
            IF \E j \in 1..Len(doc) : doc[j].key = text[i].key
               THEN [j \in 1..Len(doc) |->
                        IF doc[j].key = text[i].key THEN text[i] ELSE doc[j]]
            ELSE Append(doc, text[i]))

\* a deserializer that keeps every member of the text, repeated keys too
Deserialize_keepsAll(text) == text

Deserialize(text) == DeserializeFrom(text, 1, <<>>)

\* root[key].to<JsonObject>() followed by the three assignments: the member
\* of that key is replaced where it stands, a new key is appended
RECURSIVE BuildFrom(_, _, _)
BuildFrom(known, i, doc) ==
    IF i > Len(known) THEN doc
    ELSE LET m == [key |-> known[i].audioKey,
                   has |-> {"description", "type", "path"},
                   description |-> known[i].description,
                   type |-> known[i].type,
                   path |-> known[i].path]
             at == {j \in 1..Len(doc) : doc[j].key = m.key}
         IN  BuildFrom(known, i + 1,
                IF at = {} THEN Append(doc, m)
                ELSE [doc EXCEPT ![CHOOSE j \in at : TRUE] = m])

\* a save that leaves out seq["path"]
BuildDoc_withoutPath(known) ==
    [i \in 1..Len(known) |->
        [key |-> known[i].audioKey, has |-> {"description", "type"},
         description |-> known[i].description, type |-> known[i].type,
         path |-> EmptyStr]]

BuildDoc(known) == BuildFrom(known, 1, <<>>)

LONG_MAX == <<32767, 65535>>

\* String::toInt() of the text print(millis()) wrote, stored in an unsigned
\* long: atol saturates at LONG_MAX
ToInt(text) == IF text[1] >= 32768 THEN LONG_MAX ELSE text

\* CACHE_VALIDITY_HOURS * 60 * 60 * 1000UL
MaxAge == U32(CACHE_VALIDITY_HOURS * 3600 * 1000)

ULONG_MAX == <<65535, 65535>>

\* the cacheAge of isCacheStale
CacheAge(currentTime, savedTime) ==
    IF U32Ge(currentTime, savedTime) THEN U32Sub(currentTime, savedTime)
    ELSE U32Add(U32Add(U32Sub(ULONG_MAX, savedTime), currentTime), U32(1))

\* isCacheStale() that takes a card it cannot initialize for a stale cache
IsCacheStale_failStale(count, init) ==
    IF count = 0
        THEN [ret |-> TRUE, init |-> init, aged |-> FALSE, age |-> U32(0)]
    ELSE IF ~InitializeSDCard(init)
        THEN [ret |-> TRUE, init |-> FALSE, aged |-> FALSE, age |-> U32(0)]
    ELSE IF ~sdPresent \/ tsFile = NoStamp
        THEN [ret |-> TRUE, init |-> TRUE, aged |-> FALSE, age |-> U32(0)]
    ELSE [ret |-> U32Gt(CacheAge(now, ToInt(tsFile)), MaxAge), init |-> TRUE,
          aged |-> TRUE, age |-> CacheAge(now, ToInt(tsFile))]

\* isCacheStale(): [ret, init, aged, age]; aged tells that cacheAge was
\* computed, age is its value then
IsCacheStale(count, init) ==
    IF count = 0
        THEN [ret |-> TRUE, init |-> init, aged |-> FALSE, age |-> U32(0)]
    ELSE IF ~InitializeSDCard(init)
        THEN [ret |-> FALSE, init |-> FALSE, aged |-> FALSE, age |-> U32(0)]
    ELSE IF ~sdPresent \/ tsFile = NoStamp
        THEN [ret |-> TRUE, init |-> TRUE, aged |-> FALSE, age |-> U32(0)]
    ELSE [ret |-> U32Gt(CacheAge(now, ToInt(tsFile)), MaxAge), init |-> TRUE,
          aged |-> TRUE, age |-> CacheAge(now, ToInt(tsFile))]

\* a save that fails when the timestamp file cannot be opened
SaveKnownSequencesToSDCard_needsStamp(known, init, openOk, writeOk, tsOpenOk) ==
    LET start == [ret |-> FALSE, init |-> InitializeSDCard(init),
                  json |-> jsonFile, ts |-> tsFile]
    IN
    IF ~InitializeSDCard(init) THEN start
    ELSE IF ~(sdPresent /\ openOk) THEN start
    ELSE IF ~writeOk
        THEN [start EXCEPT !.json = [wellFormed |-> FALSE, length |-> 0,
                                     doc |-> <<>>]]
    ELSE LET text == [wellFormed |-> TRUE, length |-> 2 + Len(known),
                      doc |-> BuildDoc(known)]
         IN  IF tsOpenOk
                THEN [start EXCEPT !.ret = TRUE, !.json = text, !.ts = now]
             ELSE [start EXCEPT !.json = text]

\* saveKnownSequencesToSDCard() with the outcomes of SD.open of the registry
\* file, of serializeJson and of SD.open of the timestamp file:
\* [ret, init, json, ts]
SaveKnownSequencesToSDCard(known, init, openOk, writeOk, tsOpenOk) ==
    LET start == [ret |-> FALSE, init |-> InitializeSDCard(init),
                  json |-> jsonFile, ts |-> tsFile]
    IN
    IF ~InitializeSDCard(init) THEN start
    ELSE IF ~(sdPresent /\ openOk) THEN start
    ELSE IF ~writeOk
        \* the file was opened for writing, nothing reached it
        THEN [start EXCEPT !.json = [wellFormed |-> FALSE, length |-> 0,
                                     doc |-> <<>>]]
    ELSE LET text == [wellFormed |-> TRUE, length |-> 2 + Len(known),
                      doc |-> BuildDoc(known)]
         IN  IF tsOpenOk
                THEN [start EXCEPT !.ret = TRUE, !.json = text, !.ts = now]
             ELSE [start EXCEPT !.ret = TRUE, !.json = text]

\* a load that resets knownSequenceCount before it has parsed the text
LoadKnownSequencesFromSDCard_clearsFirst(known, count, init) ==
    LET start == [ret |-> FALSE, init |-> InitializeSDCard(init),
                  known |-> known, count |-> count]
    IN
    IF ~InitializeSDCard(init) THEN start
    ELSE IF ~sdPresent \/ jsonFile = NoFile THEN start
    ELSE IF jsonFile.length = 0 THEN start
    ELSE IF ~jsonFile.wellFormed
        THEN [start EXCEPT !.known = <<>>, !.count = 0]
    ELSE [start EXCEPT !.ret = TRUE,
                      !.known = ParseRecords(Deserialize(jsonFile.doc)),
                      !.count = Len(ParseRecords(Deserialize(jsonFile.doc)))]

\* loadKnownSequencesFromSDCard(): [ret, init, known, count]
LoadKnownSequencesFromSDCard(known, count, init) ==
    LET start == [ret |-> FALSE, init |-> InitializeSDCard(init),
                  known |-> known, count |-> count]
    IN
    IF ~InitializeSDCard(init) THEN start
    ELSE IF ~sdPresent \/ jsonFile = NoFile THEN start
    ELSE IF jsonFile.length = 0 THEN start
    ELSE IF ~jsonFile.wellFormed THEN start
    ELSE [start EXCEPT !.ret = TRUE,
                      !.known = ParseRecords(Deserialize(jsonFile.doc)),
                      !.count = Len(ParseRecords(Deserialize(jsonFile.doc)))]

\* ------------------------------------------------------------------------
\* Cache resolver
\* ------------------------------------------------------------------------
\* the null pointer, where a string is expected
NULL == <<"NULL">>

\* the comparisons inverted: strncmp(...) != 0 for both prefixes
IsUrl_inverted(path) ==
    ~HasPrefix(path, HTTP_PREFIX) /\ ~HasPrefix(path, HTTPS_PREFIX)

\* strncmp(path, "http://", 7) == 0 || strncmp(path, "https://", 8) == 0
IsUrl(path) == HasPrefix(path, HTTP_PREFIX) \/ HasPrefix(path, HTTPS_PREFIX)

\* the search with "== 0" left off strcmp: the first record whose audioKey
\* differs from key
FindKey_inverted(key) ==
    LET S == {i \in 1..knownSequenceCount : knownFiles[i].audioKey # key}
    IN  IF S = {} THEN 0 ELSE CHOOSE i \in S : \A j \in S : i <= j

\* index of the first record whose audioKey is key, 0 when there is none
FindKey(key) ==
    LET S == {i \in 1..knownSequenceCount : knownFiles[i].audioKey = key}
    IN  IF S = {} THEN 0 ELSE CHOOSE i \in S : \A j \in S : i <= j

hasAudioKey(key) == knownSequenceCount # 0 /\ FindKey(key) # 0

\* processAudioKey after addToDownloadQueue has returned a
Enqueued(a) ==
    [ret |-> NULL, added |-> TRUE, addRet |-> a.ret, queue |-> a.queue,
     count |-> a.count, init |-> a.init]

\* the branch of processAudioKey for a web URL, given e, the result of
\* audioFileExists(found->path)
ResolveUrl(found, e) ==
    IF e.ret
        THEN [ret |-> GetLocalAudioPath(found.path, e.init).path,
              added |-> FALSE, addRet |-> FALSE, queue |-> downloadQueue,
              count |-> downloadQueueCount,
              init |-> GetLocalAudioPath(found.path, e.init).init]
    ELSE Enqueued(AddToDownloadQueue(found.path, found.description, e.init))

\* the part of processAudioKey that follows the search, for the record found
ProcessFound(found) ==
    LET same == [ret |-> NULL, added |-> FALSE, addRet |-> FALSE,
                 queue |-> downloadQueue, count |-> downloadQueueCount,
                 init |-> sdCardInitialized]
    IN
    IF found.type = "audio"
        THEN IF Len(found.path) = 0 THEN same
             ELSE IF IsUrl(found.path)
                THEN ResolveUrl(found,
                                AudioFileExists(found.path, sdCardInitialized))
             ELSE [same EXCEPT !.ret = found.path]
    ELSE IF found.type = "service" THEN same
    ELSE IF found.type = "shortcut" THEN same
    ELSE IF found.type = "url" THEN same
    ELSE same

\* processAudioKey(key): [ret, added, addRet, queue, count, init]; ret is
\* the path returned or NULL, added tells that addToDownloadQueue was
\* called, addRet what it returned
ProcessAudioKey(key) ==
    IF FindKey(key) = 0
        THEN [ret |-> NULL, added |-> FALSE, addRet |-> FALSE,
              queue |-> downloadQueue, count |-> downloadQueueCount,
              init |-> sdCardInitialized]
    ELSE ProcessFound(knownFiles[FindKey(key)])

\* ------------------------------------------------------------------------
\* Inputs
\* ------------------------------------------------------------------------
U_A == HTTP_PREFIX \o <<"x","/","a",".","m","p","3">>
U_B == HTTPS_PREFIX \o <<"x","/","b">>
U_C == HTTP_PREFIX \o <<"x","/","c"," ","d",".","m","p","3">>
U_D == HTTP_PREFIX \o <<"x","/","d","?","v">>
P_L == <<"/","l",".","m","p","3">>

\* the file name of U_A on another host
U_A2 == HTTP_PREFIX \o <<"y","/","a",".","m","p","3">>
\* two locators without a file name that have the same hash:
\* 33 * 'b' + '0' = 33 * 'a' + 'Q'
U_E == HTTPS_PREFIX \o <<"x","/","b","0">>
U_F == HTTPS_PREFIX \o <<"x","/","a","Q">>
\* two locators whose file names differ in character MAX_FILENAME_LENGTH
LongName(c) ==
    [i \in 1..(MAX_FILENAME_LENGTH - 1) |-> "a"] \o <<c>> \o DOT_MP3
U_L1 == HTTP_PREFIX \o <<"x","/">> \o LongName("1")
U_L2 == HTTP_PREFIX \o <<"x","/">> \o LongName("2")

\* a member of the JSON object: its key and the fields it has
Member(k, has, d, t, p) ==
    [key |-> k, has |-> has, description |-> d, type |-> t, path |-> p]

All == {"description", "type", "path"}

Doc1 == << Member("1", All, <<"A">>, "audio", U_A),
           Member("2", All, <<"B">>, "audio", U_B),
           Member("3", {"type", "path"}, <<>>, "audio", U_C),
           Member("4", All, <<"L">>, "audio", P_L),
           Member("5", {"description", "type"}, <<"E">>, "audio", <<>>),
           Member("6", All, <<"X">>, "audio", U_D) >>

Doc2 == << Member("1", All, <<"S">>, "service", U_A),
           Member("2", {"description", "type"}, <<"K">>, "shortcut", <<>>),
           Member("3", All, <<"W">>, "url", U_B),
           Member("4", {"description", "path"}, <<"N">>, "", U_A) >>

\* a text in which key "1" comes twice
Doc3 == << Member("1", All, <<"A">>, "audio", P_L),
           Member("2", All, <<"B">>, "audio", U_A),
           Member("1", All, <<"S">>, "service", U_B) >>

KeyNames == <<"1", "2", "3", "4", "5", "6", "7", "8", "9">>

\* a text with one member more than knownFiles has room for
DocOver == [i \in 1..(MAX_KNOWN_SEQUENCES + 1) |->
               Member(KeyNames[i], All, <<"D">>, "audio", P_L)]

\* what the GET of the registry URL can answer
Fetches ==
    { [httpCode |-> 200, wellFormed |-> TRUE, length |-> 300, doc |-> Doc1],
      [httpCode |-> 200, wellFormed |-> TRUE, length |-> 250, doc |-> Doc2],
      [httpCode |-> 200, wellFormed |-> FALSE, length |-> 100, doc |-> <<>>],
      [httpCode |-> 200, wellFormed |-> TRUE, length |-> 9000, doc |-> Doc1],
      [httpCode |-> 404, wellFormed |-> FALSE, length |-> 0, doc |-> <<>>] }

\* how the calls of saveKnownSequencesToSDCard can end: SD.open of the
\* registry file, serializeJson, SD.open of the timestamp file
SaveOutcomes ==
    { [openOk |-> TRUE, writeOk |-> TRUE, tsOpenOk |-> TRUE],
      [openOk |-> TRUE, writeOk |-> TRUE, tsOpenOk |-> FALSE],
      [openOk |-> TRUE, writeOk |-> FALSE, tsOpenOk |-> FALSE],
      [openOk |-> FALSE, writeOk |-> FALSE, tsOpenOk |-> FALSE] }

\* how the calls of processDownloadQueue can end: SD.mkdir, http.GET,
\* SD.open and the transfer
DrainOutcomes ==
    LET none == [payload |-> 0, declared |-> 0, bursts |-> <<>>,
                 closes |-> TRUE]
    IN  { [mkdirOk |-> TRUE, httpCode |-> 200, openOk |-> TRUE, t |-> t] :
              t \in Transfers }
        \cup { [mkdirOk |-> FALSE, httpCode |-> 200, openOk |-> TRUE,
                t |-> none],
               [mkdirOk |-> TRUE, httpCode |-> 404, openOk |-> TRUE,
                t |-> none],
               [mkdirOk |-> TRUE, httpCode |-> 200, openOk |-> FALSE,
                t |-> none] }

\* what the GET of the registry URL can answer, texts with a repeated key
\* and with too many members included
CacheFetches ==
    { [httpCode |-> 200, wellFormed |-> TRUE, length |-> 250, doc |-> Doc2],
      [httpCode |-> 200, wellFormed |-> TRUE, length |-> 200, doc |-> Doc3],
      [httpCode |-> 200, wellFormed |-> TRUE, length |-> 400,
       doc |-> DocOver],
      [httpCode |-> 200, wellFormed |-> FALSE, length |-> 100, doc |-> <<>>],
      [httpCode |-> 200, wellFormed |-> TRUE, length |-> 9000, doc |-> Doc2],
      [httpCode |-> 404, wellFormed |-> FALSE, length |-> 0, doc |-> <<>>] }

\* what AUDIO_JSON_FILE can hold when the device is switched on: nothing,
\* a text with a repeated key and too many members, a damaged text
CardFiles ==
    { NoFile,
      [wellFormed |-> TRUE, length |-> 500, doc |-> Doc3 \o DocOver],
      [wellFormed |-> FALSE, length |-> 100, doc |-> <<>>] }

\* registries whose locators meet in one local name
DocNames == << Member("1", All, <<"A">>, "audio", U_A),
               Member("2", All, <<"B">>, "audio", U_A2),
               Member("3", All, <<"E">>, "audio", U_E),
               Member("4", All, <<"F">>, "audio", U_F) >>

\* a locator whose last segment is the parent directory
U_UP == HTTP_PREFIX \o <<"x","/","m","/",".",".">>

DocLong == << Member("1", All, <<"L">>, "audio", U_L1),
              Member("2", All, <<"M">>, "audio", U_L2),
              Member("3", All, <<"P">>, "audio", U_UP) >>

NameFetches ==
    { [httpCode |-> 200, wellFormed |-> TRUE, length |-> 400,
       doc |-> DocNames],
      [httpCode |-> 200, wellFormed |-> TRUE, length |-> 300,
       doc |-> DocLong] }

NameKeys == {"1", "2", "3", "4"}

\* a download that goes through, one the server refuses
NameDrains ==
    { [mkdirOk |-> TRUE, httpCode |-> 200, openOk |-> TRUE,
       t |-> [payload |-> 300, declared |-> 300, bursts |-> <<300>>,
              closes |-> TRUE]],
      [mkdirOk |-> TRUE, httpCode |-> 404, openOk |-> TRUE,
       t |-> [payload |-> 0, declared |-> 0, bursts |-> <<>>,
              closes |-> TRUE]] }

\* how the two calls of SD.remove in clearAudioKeys can end
RemoveOutcomes ==
    { [jsonOk |-> TRUE, tsOk |-> TRUE],
      [jsonOk |-> FALSE, tsOk |-> TRUE],
      [jsonOk |-> TRUE, tsOk |-> FALSE] }

\* both removals go through
RemovesOk == {rm \in RemoveOutcomes : rm.jsonOk /\ rm.tsOk}

\* the save goes through
SavesOk == {o \in SaveOutcomes : o.tsOpenOk}

Keys == {"1", "2", "3", "4", "5", "6"}

\* readings of millis(): 0, 5, 1000, the validity window and one more,
\* 2^31 - 1, 3000000000 and 2^32 - 10
ClockValues == {U32(0), U32(5), U32(1000), U32(604800000), U32(604800001),
                <<32767, 65535>>, <<45776, 24064>>, <<65535, 65526>>}

\* ------------------------------------------------------------------------
\* Operations
\* ------------------------------------------------------------------------
\* the record of a call, with the results it has when nothing happened
Call(op) == [op |-> op, key |-> "", ret |-> FALSE, path |-> NULL,
             added |-> FALSE, addRet |-> FALSE, forwarded |-> FALSE,
             attempted |-> FALSE, began |-> FALSE, status |-> 0,
             opened |-> FALSE, chunks |-> 0, total |-> 0,
             saved |-> FALSE, aged |-> FALSE, age |-> U32(0),
             freed |-> 0, hung |-> FALSE]

Idle == Call("idle")

\* ButtonPress {0, false, false}
NoPress == [timestamp |-> U32(0), value |-> FALSE, hasPressed |-> FALSE]

\* downSince while the station has the network
Connected == <<-1, -1>>

\* the game, the player and the WiFi manager after setup() on a device that
\* has credentials: initWiFi has begun to connect in station mode
AppInit ==
    /\ gameState = "WAITING_FOR_PLAYERS"
    /\ player1LastPress = NoPress
    /\ player2LastPress = NoPress
    /\ firstPressTime = U32(0)
    /\ isPlayingAudio = FALSE
    /\ audioPlayer = NULL
    /\ isConfigMode = FALSE
    /\ wifiMode = "STA"
    /\ connectionLogged = FALSE
    /\ otaStarted = FALSE
    /\ connectionStartTime = U32(0)
    /\ portalStartTime = U32(0)
    /\ downSince = U32(0)
    /\ boots = 0

Init ==
    /\ knownFiles = <<>>
    /\ knownSequenceCount = 0
    /\ sdCardInitialized = FALSE
    /\ downloadQueue = [i \in QueueSlots |-> BlankItem]
    /\ downloadQueueCount = 0
    /\ downloadQueueIndex = 0
    /\ lastDownloadCheck = U32(0)
    /\ now = U32(0)
    /\ wifiConnected = FALSE
    /\ sdPresent = TRUE
    /\ audioDir = FALSE
    /\ files = <<>>
    /\ jsonFile = NoFile
    /\ tsFile = NoStamp
    /\ AppInit
    /\ last = Idle

\* initializeAudioFileManager() after loadKnownSequencesFromSDCard has
\* returned l
Loaded(l) ==
    /\ knownFiles' = l.known
    /\ knownSequenceCount' = l.count
    /\ sdCardInitialized' = IF l.ret THEN IsCacheStale(l.count, l.init).init
                                     ELSE l.init
    /\ last' = [Call("initializeAudioFileManager") EXCEPT
                   !.ret = l.ret,
                   !.aged = l.ret /\ IsCacheStale(l.count, l.init).aged,
                   !.age = IF l.ret THEN IsCacheStale(l.count, l.init).age
                                    ELSE U32(0)]
    /\ UNCHANGED <<queueVars, lastDownloadCheck, envVars>>

\* initializeAudioFileManager()
InitializeAudioFileManager ==
    /\ last = Idle
    /\ UNCHANGED appVars
    /\ Loaded(LoadKnownSequencesFromSDCard(<<>>, 0, FALSE))

\* the end of downloadAudio returning what the save returned
Refreshed_failsWithSave(st, parsed, sv) ==
    /\ last' = [Call("downloadAudio") EXCEPT
                   !.ret = sv.ret, !.began = TRUE, !.status = 200,
                   !.saved = sv.ret,
                   !.aged = st.aged, !.age = st.age,
                   !.freed = knownSequenceCount]
    /\ knownFiles' = parsed
    /\ knownSequenceCount' = Len(parsed)
    /\ sdCardInitialized' = sv.init
    /\ jsonFile' = sv.json
    /\ tsFile' = sv.ts
    /\ UNCHANGED <<queueVars, lastDownloadCheck, now, wifiConnected,
                   sdPresent, audioDir, files>>

\* the end of downloadAudio: the records parsed are in place and
\* saveKnownSequencesToSDCard has returned sv
Refreshed(st, parsed, sv) ==
    /\ last' = [Call("downloadAudio") EXCEPT
                   !.ret = TRUE, !.began = TRUE, !.status = 200,
                   !.saved = sv.ret,
                   !.aged = st.aged, !.age = st.age,
                   !.freed = knownSequenceCount]
    /\ knownFiles' = parsed
    /\ knownSequenceCount' = Len(parsed)
    /\ sdCardInitialized' = sv.init
    /\ jsonFile' = sv.json
    /\ tsFile' = sv.ts
    /\ UNCHANGED <<queueVars, lastDownloadCheck, now, wifiConnected,
                   sdPresent, audioDir, files>>

\* downloadAudio that clears the registry before it has parsed the payload
FetchIfStale_clearsFirst(st, resp, o) ==
    IF ~st.ret
        THEN /\ last' = [Call("downloadAudio") EXCEPT
                            !.ret = TRUE, !.aged = st.aged, !.age = st.age]
             /\ sdCardInitialized' = st.init
             /\ UNCHANGED <<registryVars, queueVars, lastDownloadCheck,
                            envVars>>
    ELSE IF resp.httpCode # 200 \/ resp.length > MAX_HTTP_RESPONSE_SIZE
            \/ ~resp.wellFormed
        THEN /\ last' = [Call("downloadAudio") EXCEPT
                            !.began = TRUE, !.status = resp.httpCode,
                            !.aged = st.aged, !.age = st.age]
             /\ sdCardInitialized' = st.init
             /\ knownFiles' = <<>>
             /\ knownSequenceCount' = 0
             /\ UNCHANGED <<queueVars, lastDownloadCheck, envVars>>
    ELSE Refreshed(st, ParseRecords(Deserialize(resp.doc)),
                   SaveKnownSequencesToSDCard(
                       ParseRecords(Deserialize(resp.doc)), st.init,
                       o.openOk, o.writeOk, o.tsOpenOk))

\* downloadAudio after the WiFi check, where isCacheStale has returned st
FetchIfStale(st, resp, o) ==
    IF ~st.ret
        THEN /\ last' = [Call("downloadAudio") EXCEPT
                            !.ret = TRUE, !.aged = st.aged, !.age = st.age]
             /\ sdCardInitialized' = st.init
             /\ UNCHANGED <<registryVars, queueVars, lastDownloadCheck,
                            envVars>>
    ELSE IF resp.httpCode # 200 \/ resp.length > MAX_HTTP_RESPONSE_SIZE
            \/ ~resp.wellFormed
        THEN /\ last' = [Call("downloadAudio") EXCEPT
                            !.began = TRUE, !.status = resp.httpCode,
                            !.aged = st.aged, !.age = st.age]
             /\ sdCardInitialized' = st.init
             /\ UNCHANGED <<registryVars, queueVars, lastDownloadCheck,
                            envVars>>
    ELSE Refreshed(st, ParseRecords(Deserialize(resp.doc)),
                   SaveKnownSequencesToSDCard(
                       ParseRecords(Deserialize(resp.doc)), st.init,
                       o.openOk, o.writeOk, o.tsOpenOk))

\* downloadAudio() without the WiFi check
DownloadAudio_noWiFiCheck(resp, o) ==
    /\ last = Idle
    /\ UNCHANGED appVars
    /\ FetchIfStale(IsCacheStale(knownSequenceCount, sdCardInitialized),
                    resp, o)

\* downloadAudio() with the outcome of the GET (resp) and of the save (o)
DownloadAudio(resp, o) ==
    /\ last = Idle
    /\ UNCHANGED appVars
    /\ IF ~wifiConnected
          THEN /\ last' = Call("downloadAudio")
               /\ UNCHANGED <<progVars, envVars>>
       ELSE FetchIfStale(IsCacheStale(knownSequenceCount, sdCardInitialized),
                         resp, o)

\* the state after processAudioKey(key) has returned r
AfterProcessAudioKey(key, r) ==
    /\ downloadQueue' = r.queue
    /\ downloadQueueCount' = r.count
    /\ sdCardInitialized' = r.init
    /\ last' = [Call("processAudioKey") EXCEPT
                   !.key = key, !.path = r.ret, !.added = r.added,
                   !.addRet = r.addRet]
    /\ UNCHANGED <<registryVars, downloadQueueIndex, lastDownloadCheck,
                   envVars>>

\* processAudioKey(key)
ProcessAudioKeyCall(key) ==
    /\ last = Idle
    /\ UNCHANGED appVars
    /\ AfterProcessAudioKey(key, ProcessAudioKey(key))

\* the state after processDownloadQueue() has returned r
AfterProcessDownloadQueue(op, r) ==
    /\ downloadQueue' = r.queue
    /\ downloadQueueIndex' = r.index
    /\ sdCardInitialized' = r.init
    /\ audioDir' = r.dir
    /\ files' = r.files
    /\ last' = [Call(op) EXCEPT
                   !.forwarded = TRUE, !.ret = r.ret,
                   !.attempted = r.attempted, !.began = r.began,
                   !.status = r.status, !.opened = r.opened,
                   !.chunks = r.chunks, !.total = r.total,
                   !.hung = r.hung]
    /\ UNCHANGED <<registryVars, downloadQueueCount, now, wifiConnected,
                   sdPresent, jsonFile, tsFile>>

\* processDownloadQueue(), as processAudioDownloadQueue calls it once the
\* rate limit has let the call through
ProcessDownloadQueueCall(o) ==
    /\ last = Idle
    /\ UNCHANGED appVars
    /\ AfterProcessDownloadQueue("processDownloadQueue",
            ProcessDownloadQueue(o.mkdirOk, o.httpCode, o.openOk, o.t))
    /\ UNCHANGED lastDownloadCheck

\* the rate limit as a deadline: millis() < lastDownloadCheck + interval
ProcessAudioDownloadQueue_deadline(o) ==
    /\ last = Idle
    /\ UNCHANGED appVars
    /\ IF U32Lt(now, U32Add(lastDownloadCheck,
                            U32(DOWNLOAD_QUEUE_CHECK_INTERVAL_MS)))
          THEN /\ last' = Call("processAudioDownloadQueue")
               /\ UNCHANGED <<progVars, envVars>>
       ELSE /\ lastDownloadCheck' = now
            /\ AfterProcessDownloadQueue("processAudioDownloadQueue",
                   ProcessDownloadQueue(o.mkdirOk, o.httpCode, o.openOk,
                                        o.t))

\* processAudioDownloadQueue(), the rate-limited entry to
\* processDownloadQueue()
ProcessAudioDownloadQueue(o) ==
    /\ last = Idle
    /\ UNCHANGED appVars
    /\ IF U32Lt(U32Sub(now, lastDownloadCheck),
                U32(DOWNLOAD_QUEUE_CHECK_INTERVAL_MS))
          THEN /\ last' = Call("processAudioDownloadQueue")
               /\ UNCHANGED <<progVars, envVars>>
       ELSE /\ lastDownloadCheck' = now
            /\ AfterProcessDownloadQueue("processAudioDownloadQueue",
                   ProcessDownloadQueue(o.mkdirOk, o.httpCode, o.openOk,
                                        o.t))

\* clearDownloadQueue() that resets the count and leaves the cursor
ClearDownloadQueue_countOnly ==
    /\ last = Idle
    /\ UNCHANGED appVars
    /\ downloadQueueCount' = 0
    /\ last' = Call("clearDownloadQueue")
    /\ UNCHANGED <<registryVars, downloadQueue, downloadQueueIndex,
                   sdCardInitialized, lastDownloadCheck, envVars>>

\* clearDownloadQueue()
ClearDownloadQueue ==
    /\ last = Idle
    /\ UNCHANGED appVars
    /\ downloadQueueCount' = 0
    /\ downloadQueueIndex' = 0
    /\ last' = Call("clearDownloadQueue")
    /\ UNCHANGED <<registryVars, downloadQueue, sdCardInitialized, lastDownloadCheck,
                   envVars>>

\* clearAudioKeys() that leaves the timestamp file on the card
ClearAudioKeysCall_keepsStamp(rm) ==
    /\ last = Idle
    /\ UNCHANGED appVars
    /\ knownFiles' = <<>>
    /\ knownSequenceCount' = 0
    /\ sdCardInitialized' = InitializeSDCard(sdCardInitialized)
    /\ jsonFile' = IF InitializeSDCard(sdCardInitialized) /\ sdPresent
                         /\ rm.jsonOk
                      THEN NoFile ELSE jsonFile
    /\ last' = [Call("clearAudioKeys") EXCEPT !.freed = knownSequenceCount]
    /\ UNCHANGED <<queueVars, lastDownloadCheck, now, wifiConnected,
                   sdPresent, audioDir, files, tsFile>>

\* clearAudioKeys() with the outcomes of SD.remove of the registry file
\* and of the timestamp file (rm)
ClearAudioKeysCall(rm) ==
    /\ last = Idle
    /\ UNCHANGED appVars
    /\ knownFiles' = <<>>
    /\ knownSequenceCount' = 0
    /\ sdCardInitialized' = InitializeSDCard(sdCardInitialized)
    /\ jsonFile' = IF InitializeSDCard(sdCardInitialized) /\ sdPresent
                         /\ rm.jsonOk
                      THEN NoFile ELSE jsonFile
    /\ tsFile' = IF InitializeSDCard(sdCardInitialized) /\ sdPresent
                       /\ rm.tsOk
                    THEN NoStamp ELSE tsFile
    /\ last' = [Call("clearAudioKeys") EXCEPT !.freed = knownSequenceCount]
    /\ UNCHANGED <<queueVars, lastDownloadCheck, now, wifiConnected,
                   sdPresent, audioDir, files>>

\* clearAudioKeys()
ClearAudioKeys == \E rm \in RemoveOutcomes : ClearAudioKeysCall(rm)

\* the caller has taken the result of the call; loop() goes on
ReturnToLoop ==
    /\ last # Idle
    /\ ~last.hung
    /\ last' = Idle
    /\ UNCHANGED <<progVars, envVars, appVars>>

\* ------------------------------------------------------------------------
\* Environment
\* ------------------------------------------------------------------------
\* millis() moves on
Tick ==
    /\ last = Idle
    /\ UNCHANGED appVars
    /\ \E t \in ClockValues : t # now /\ now' = t
    /\ UNCHANGED <<progVars, wifiConnected, sdPresent, audioDir, files,
                   jsonFile, tsFile, last>>

\* the network comes or goes
WiFiChange ==
    /\ last = Idle
    /\ UNCHANGED appVars
    /\ wifiConnected' = ~wifiConnected
    /\ UNCHANGED <<progVars, now, sdPresent, audioDir, files, jsonFile,
                   tsFile, last>>

\* the card is pulled or put back
CardChange ==
    /\ last = Idle
    /\ UNCHANGED appVars
    /\ sdPresent' = ~sdPresent
    /\ UNCHANGED <<progVars, now, wifiConnected, audioDir, files, jsonFile,
                   tsFile, last>>

\* The resolver and the download queue: the registry is refreshed and
\* cleared, keys are resolved, the queue is drained and cleared, while the
\* network and the card come and go.  Time stands still and the registry
\* is saved and removed without fault.
Next ==
    \/ \E resp \in Fetches, o \in SavesOk : DownloadAudio(resp, o)
    \/ \E key \in Keys : ProcessAudioKeyCall(key)
    \/ \E o \in DrainOutcomes : ProcessDownloadQueueCall(o)
    \/ ClearDownloadQueue
    \/ \E rm \in RemovesOk : ClearAudioKeysCall(rm)
    \/ ReturnToLoop
    \/ WiFiChange
    \/ CardChange

Spec == Init /\ [][Next]_vars

\* Every public entry point, with the clock running.
NextAll ==
    \/ InitializeAudioFileManager
    \/ \E resp \in Fetches, o \in SaveOutcomes : DownloadAudio(resp, o)
    \/ \E key \in Keys : ProcessAudioKeyCall(key)
    \/ \E o \in DrainOutcomes : ProcessAudioDownloadQueue(o)
    \/ ClearDownloadQueue
    \/ ClearAudioKeys
    \/ ReturnToLoop
    \/ Tick
    \/ WiFiChange
    \/ CardChange

SpecAll == Init /\ [][NextAll]_vars

\* The registry and its cache on the card: the device is switched on with
\* some registry file on the card, the registry is loaded, refreshed and
\* cleared while the clock runs and the network and the card come and go.
\* Nothing is resolved, so the download queue stays empty.
InitCache ==
    /\ knownFiles = <<>>
    /\ knownSequenceCount = 0
    /\ sdCardInitialized = FALSE
    /\ downloadQueue = [i \in QueueSlots |-> BlankItem]
    /\ downloadQueueCount = 0
    /\ downloadQueueIndex = 0
    /\ lastDownloadCheck = U32(0)
    /\ now = U32(0)
    /\ wifiConnected = FALSE
    /\ sdPresent = TRUE
    /\ audioDir = FALSE
    /\ files = <<>>
    /\ jsonFile \in CardFiles
    /\ tsFile = NoStamp
    /\ AppInit
    /\ last = Idle

NextCache ==
    \/ InitializeAudioFileManager
    \/ \E resp \in CacheFetches, o \in SaveOutcomes : DownloadAudio(resp, o)
    \/ ClearAudioKeys
    \/ ReturnToLoop
    \/ Tick
    \/ WiFiChange
    \/ CardChange

SpecCache == InitCache /\ [][NextCache]_vars

\* Clearing the registry: a registry is fetched and saved, two of its keys
\* are resolved and their tasks drained, the registry is cleared, with
\* every outcome of the removals, and loaded again from the card.
ClearKeys == {"1", "2"}

ClearFetches == {resp \in Fetches : resp.doc = Doc1 /\ resp.length = 300}

NextClear ==
    \/ InitializeAudioFileManager
    \/ \E resp \in ClearFetches, o \in SavesOk : DownloadAudio(resp, o)
    \/ \E key \in ClearKeys : ProcessAudioKeyCall(key)
    \/ \E o \in NameDrains : ProcessDownloadQueueCall(o)
    \/ ClearAudioKeys
    \/ ReturnToLoop
    \/ WiFiChange
    \/ CardChange

SpecClear == Init /\ [][NextClear]_vars

\* Draining the queue: loop() calls the drain in every iteration, so a drain
\* call that can be made again and again is made; what a call meets (the
\* directory, the status, the file, the transfer) is free, and so are the
\* network and the card.  The queue is never cleared.
NextDrain ==
    \/ \E resp \in ClearFetches, o \in SavesOk : DownloadAudio(resp, o)
    \/ \E key \in ClearKeys : ProcessAudioKeyCall(key)
    \/ \E o \in DrainOutcomes : ProcessDownloadQueueCall(o)
    \/ ReturnToLoop
    \/ WiFiChange
    \/ CardChange

SpecDrain ==
    /\ Init /\ [][NextDrain]_vars
    /\ SF_vars(\E o \in DrainOutcomes : ProcessDownloadQueueCall(o))
    /\ WF_vars(ReturnToLoop)

\* The naming of local files: registries whose locators share a file name,
\* a hash or the first MAX_FILENAME_LENGTH - 1 characters of the file name
\* are fetched, their keys are resolved and their tasks drained.  The
\* queue is never cleared.
NextNames ==
    \/ \E resp \in NameFetches, o \in SavesOk : DownloadAudio(resp, o)
    \/ \E key \in NameKeys : ProcessAudioKeyCall(key)
    \/ \E o \in NameDrains : ProcessDownloadQueueCall(o)
    \/ ReturnToLoop
    \/ WiFiChange
    \/ CardChange

SpecNames == Init /\ [][NextNames]_vars

\* ------------------------------------------------------------------------
\* Properties
\* ------------------------------------------------------------------------
\* a step that is the call processAudioKey(knownFiles[i].audioKey) where
\* record i is the one the search finds
ResolvesRecord(i) ==
    /\ last = Idle
    /\ last'.op = "processAudioKey"
    /\ last'.key = knownFiles[i].audioKey
    /\ \A j \in 1..(i - 1) : knownFiles[j].audioKey # knownFiles[i].audioKey

\* path starts with http:// or https://
Remote(path) == HasPrefix(path, HTTP_PREFIX) \/ HasPrefix(path, HTTPS_PREFIX)

\* url is the url of a task of the queue
InQueue(url) ==
    \E q \in 0..(downloadQueueCount - 1) : downloadQueue[q].url = url

\* a step that is a call of processDownloadQueue
DrainStep == last = Idle /\ last'.op = "processDownloadQueue"

\* C1 (as claimed): once the task of a remote audio record has been drained
\* and the file its download created is on the card, whole, at the task's
\* local path, processAudioKey of the record's key returns that local path,
\* for every remote locator.
C1_RemoteThenCached ==
    \A i \in 1..knownSequenceCount, q \in 0..(downloadQueueIndex - 1) :
        ( /\ last.op = "processAudioKey"
          /\ last.key = knownFiles[i].audioKey
          /\ \A j \in 1..(i - 1) : knownFiles[j].audioKey # last.key
          /\ knownFiles[i].type = "audio"
          /\ Remote(knownFiles[i].path)
          /\ downloadQueue[q].url = knownFiles[i].path
          /\ sdPresent /\ audioDir
          /\ downloadQueue[q].localPath \in DOMAIN files
          /\ files[downloadQueue[q].localPath].src = downloadQueue[q].url
          /\ files[downloadQueue[q].localPath].complete )
        => last.path = downloadQueue[q].localPath

\* C2 (as claimed): in every queue state, the full queue included,
\* addToDownloadQueue of a locator that is in the queue returns true and
\* leaves the count, the cursor and the entries unchanged.
C2_IdempotentEnqueue ==
    [][\A i \in 1..knownSequenceCount :
          (ResolvesRecord(i) /\ last'.added /\ InQueue(knownFiles[i].path))
          => (last'.addRet /\ UNCHANGED queueVars)]_vars

\* C3: when the queue holds MAX_DOWNLOAD_QUEUE entries, addToDownloadQueue
\* of a locator that is not in the queue returns false and leaves the
\* count at MAX_DOWNLOAD_QUEUE and the cursor and the entries unchanged.
C3_CapacityCeiling ==
    [][\A i \in 1..knownSequenceCount :
          ( /\ ResolvesRecord(i) /\ last'.added
            /\ downloadQueueCount = MAX_DOWNLOAD_QUEUE
            /\ ~InQueue(knownFiles[i].path) )
          => ( /\ ~last'.addRet
               /\ downloadQueueCount' = MAX_DOWNLOAD_QUEUE
               /\ UNCHANGED queueVars )]_vars

\* a full queue has turned down a locator it does not hold
C3_Witness ==
    /\ last.op = "processAudioKey" /\ last.added /\ ~last.addRet
    /\ downloadQueueCount = MAX_DOWNLOAD_QUEUE
    /\ \E i \in 1..knownSequenceCount :
          /\ knownFiles[i].audioKey = last.key
          /\ Remote(knownFiles[i].path)
          /\ ~InQueue(knownFiles[i].path)

\* C4: in every state reached by processAudioKey, processDownloadQueue,
\* clearDownloadQueue, downloadAudio and clearAudioKeys,
\* 0 <= downloadQueueIndex <= downloadQueueCount <= MAX_DOWNLOAD_QUEUE.
C4_QueueBounds ==
    /\ 0 <= downloadQueueIndex
    /\ downloadQueueIndex <= downloadQueueCount
    /\ downloadQueueCount <= MAX_DOWNLOAD_QUEUE

\* a full queue has been drained to its end
C4_Witness ==
    /\ last.op = "processDownloadQueue" /\ last.attempted
    /\ downloadQueueIndex = downloadQueueCount
    /\ downloadQueueCount = MAX_DOWNLOAD_QUEUE

\* C5: a call of processDownloadQueue leaves downloadQueueIndex unchanged
\* or adds one to it, and getDownloadQueueCount() does not grow over it.
C5_CursorMonotonic ==
    [][DrainStep =>
          ( /\ downloadQueueIndex' \in {downloadQueueIndex,
                                         downloadQueueIndex + 1}
            /\ getDownloadQueueCount' <= getDownloadQueueCount )]_vars

\* a drain call has moved the cursor past the first of two tasks
C5_Witness ==
    /\ last.op = "processDownloadQueue" /\ last.attempted
    /\ downloadQueueIndex = 1
    /\ getDownloadQueueCount = 1

\* C6 (as claimed): processDownloadQueue returns true if and only if it
\* attempted an item, whether the download succeeded or failed.
C6_TrueIffAttempted ==
    last.op = "processDownloadQueue" => (last.ret <=> last.attempted)

\* C6 (amended): processDownloadQueue returns true if and only if it
\* attempted an item, the GET returned 200 and the destination file was
\* opened; a failed attempt returns false like a call that attempts nothing.
C6_TrueIffDownloaded ==
    last.op = "processDownloadQueue"
    => (last.ret <=> (last.attempted /\ last.status = 200 /\ last.opened))

\* an attempt has failed with a status other than 200 and returned false
C6_Witness ==
    /\ last.op = "processDownloadQueue"
    /\ last.attempted /\ last.began /\ last.status # 200
    /\ ~last.ret

\* C7: a call of processDownloadQueue made with the cursor at the end of
\* the queue, or without WiFi, or with storage that cannot be initialized,
\* returns false, begins no transfer and changes nothing: the cursor, the
\* count, the tasks and the files stay as they are.
C7_DrainNoOp ==
    [][( /\ DrainStep
         /\ \/ downloadQueueIndex >= downloadQueueCount
            \/ ~wifiConnected
            \/ (~sdCardInitialized /\ ~sdPresent) )
       => ( /\ ~last'.ret /\ ~last'.attempted /\ ~last'.began
            /\ last'.chunks = 0
            /\ UNCHANGED <<progVars, envVars>> )]_vars

\* a pending task was left alone because the card could not be initialized
C7_Witness ==
    /\ last.op = "processDownloadQueue" /\ ~last.attempted /\ ~last.ret
    /\ downloadQueueIndex < downloadQueueCount
    /\ wifiConnected
    /\ ~sdCardInitialized /\ ~sdPresent

\* C8 (as claimed): a call of processDownloadQueue performs at most one
\* read/write chunk of at most 1024 bytes.
C8_OneChunkPerCall ==
    last.op = "processDownloadQueue"
    => (last.chunks <= 1 /\ last.total <= BUFFER_SIZE)

\* C9: for an audio record whose path is not empty and starts neither with
\* http:// nor with https://, processAudioKey returns exactly that path and
\* leaves the count, the cursor and the entries of the queue unchanged.
C9_LocalLocator ==
    [][\A i \in 1..knownSequenceCount :
          ( /\ ResolvesRecord(i)
            /\ knownFiles[i].type = "audio"
            /\ Len(knownFiles[i].path) > 0
            /\ ~Remote(knownFiles[i].path) )
          => (last'.path = knownFiles[i].path /\ UNCHANGED queueVars)]_vars

\* a local path has been returned for an audio record
C9_Witness ==
    /\ last.op = "processAudioKey"
    /\ last.path # NULL
    /\ \E i \in 1..knownSequenceCount :
          /\ knownFiles[i].audioKey = last.key
          /\ knownFiles[i].type = "audio"
          /\ ~Remote(knownFiles[i].path)
          /\ last.path = knownFiles[i].path

\* C10: processAudioKey returns null and leaves the queue and the registry
\* unchanged when no record has the key, when the record found is not of
\* type "audio", and when an audio record's path is empty; it changes the
\* queue only for an audio record with a remote path for which no file is
\* stored at the local path computed for it.
C10_NegativeCases ==
    [][/\ \A key \in Keys :
            ( /\ last = Idle /\ last'.op = "processAudioKey"
              /\ last'.key = key
              /\ \A i \in 1..knownSequenceCount :
                    knownFiles[i].audioKey # key )
            => (last'.path = NULL /\ UNCHANGED <<queueVars, registryVars>>)
       /\ \A i \in 1..knownSequenceCount :
            ( /\ ResolvesRecord(i)
              /\ \/ knownFiles[i].type # "audio"
                 \/ Len(knownFiles[i].path) = 0 )
            => (last'.path = NULL /\ UNCHANGED <<queueVars, registryVars>>)
       /\ (last = Idle /\ last'.op = "processAudioKey"
              /\ queueVars' # queueVars)
            => \E i \in 1..knownSequenceCount :
                  /\ ResolvesRecord(i)
                  /\ knownFiles[i].type = "audio"
                  /\ Remote(knownFiles[i].path)
                  /\ ~SDExists(GetLocalAudioPath(knownFiles[i].path,
                                                 sdCardInitialized).path)
      ]_vars

\* null has been returned for a record that is not of type "audio", with a
\* task pending in the queue
C10_Witness ==
    /\ last.op = "processAudioKey"
    /\ last.path = NULL /\ ~last.added
    /\ downloadQueueIndex < downloadQueueCount
    /\ \E i \in 1..knownSequenceCount :
          /\ knownFiles[i].audioKey = last.key
          /\ knownFiles[i].type \in {"service", "shortcut", "url", "unknown"}

\* a step that is a call of downloadAudio
RefreshStep == last = Idle /\ last'.op = "downloadAudio"

\* the GET of the registry is answered by something downloadAudio rejects
Rejected(resp) ==
    \/ resp.httpCode # 200
    \/ resp.length > MAX_HTTP_RESPONSE_SIZE
    \/ ~resp.wellFormed

\* C11 (as claimed): whenever isCacheStale computes the age of the mark
\* stored on the card, the age is (current - mark) mod 2^32, for every
\* pair of 32-bit values of the mark and of the clock; 15 for the mark
\* 2^32 - 10 and the clock at 5.
C11_WrapSafeAge ==
    [][( /\ last = Idle
         /\ last'.op \in {"downloadAudio", "initializeAudioFileManager"}
         /\ last'.aged )
       => last'.age = U32Sub(now, tsFile)]_vars

\* C12 (as claimed): in every state, with or without storage, isCacheStale
\* returns true if and only if the registry is empty, or no mark can be
\* read, or the computed age exceeds the validity window.
C12_StaleRule ==
    IsCacheStale(knownSequenceCount, sdCardInitialized).ret
    <=> ( \/ knownSequenceCount = 0
          \/ ~sdPresent \/ tsFile = NoStamp
          \/ U32Gt(CacheAge(now, ToInt(tsFile)), MaxAge) )

\* C12 (amended): isCacheStale returns true if the registry is empty;
\* else false if the card cannot be initialized (the cache is taken for
\* valid); else true if and only if no mark can be read or the computed
\* age exceeds the validity window.
C12_StaleRuleAmended ==
    IsCacheStale(knownSequenceCount, sdCardInitialized).ret
    <=> ( \/ knownSequenceCount = 0
          \/ /\ sdCardInitialized \/ sdPresent
             /\ \/ ~sdPresent \/ tsFile = NoStamp
                \/ U32Gt(CacheAge(now, ToInt(tsFile)), MaxAge) )

\* downloadAudio has skipped the refresh of a registry that has no mark,
\* because the card could not be initialized
C12_Witness ==
    /\ last.op = "downloadAudio" /\ last.ret /\ ~last.began /\ ~last.aged
    /\ knownSequenceCount > 0
    /\ ~sdCardInitialized /\ ~sdPresent
    /\ tsFile = NoStamp

\* C13 (as claimed): a call of downloadAudio with WiFi connected, made
\* after a refresh that stored the registry and its mark and before the
\* validity window has gone by since the mark, issues no request and
\* returns true.
C13_StaleSkip ==
    [][( /\ RefreshStep
         /\ wifiConnected
         /\ knownSequenceCount > 0
         /\ sdPresent /\ tsFile # NoStamp
         /\ ~U32Gt(U32Sub(now, tsFile), MaxAge) )
       => (~last'.began /\ last'.ret)]_vars

\* C14: without WiFi, downloadAudio returns false, issues no request and
\* changes neither the registry in memory, nor the registry and mark files,
\* nor the download queue.
C14_NoWiFi ==
    [][(RefreshStep /\ ~wifiConnected)
       => ( /\ ~last'.ret /\ ~last'.began
            /\ UNCHANGED <<progVars, envVars>> )]_vars

\* downloadAudio has failed without WiFi, with records and tasks in place
C14_Witness ==
    /\ last.op = "downloadAudio" /\ ~last.ret /\ ~last.began
    /\ ~wifiConnected
    /\ knownSequenceCount > 0
    /\ downloadQueueCount > 0
    /\ jsonFile # NoFile

\* C15: when the GET of the registry returns a status other than 200, or a
\* body larger than MAX_HTTP_RESPONSE_SIZE, or a malformed text,
\* downloadAudio returns false and the registry in memory and the registry
\* and mark files stay as they were.
C15_FailedRefreshKeeps ==
    [][\A resp \in CacheFetches, o \in SaveOutcomes :
          (DownloadAudio(resp, o) /\ last'.began /\ Rejected(resp))
          => ( /\ ~last'.ret
               /\ UNCHANGED <<registryVars, jsonFile, tsFile>> )]_vars

\* a body with status 200 has been rejected while records were held
C15_Witness ==
    /\ last.op = "downloadAudio" /\ last.began /\ ~last.ret
    /\ last.status = 200
    /\ knownSequenceCount > 0
    /\ jsonFile # NoFile

\* C16: when the fetch and the parse succeed and the save fails,
\* downloadAudio returns true and the registry in memory holds the records
\* just fetched.
C16_NoRollback ==
    [][\A resp \in CacheFetches, o \in SaveOutcomes :
          ( /\ DownloadAudio(resp, o) /\ last'.began /\ ~Rejected(resp)
            /\ ~last'.saved )
          => ( /\ last'.ret
               /\ knownFiles' = ParseRecords(Deserialize(resp.doc))
               /\ knownSequenceCount' = Len(knownFiles') )]_vars

\* a refresh has succeeded although the save failed
C16_Witness ==
    /\ last.op = "downloadAudio" /\ last.began /\ last.ret
    /\ ~last.saved
    /\ knownSequenceCount > 0
    /\ jsonFile.length <= 0

\* C17: 0 <= knownSequenceCount <= MAX_KNOWN_SEQUENCES in every state; a
\* response or a registry file with more members than that is loaded with
\* success, its first MAX_KNOWN_SEQUENCES members kept in their order.
C17_RegistryBound ==
    /\ [](/\ 0 <= knownSequenceCount
          /\ knownSequenceCount <= MAX_KNOWN_SEQUENCES
          /\ Len(knownFiles) = knownSequenceCount)
    /\ [][/\ \A resp \in CacheFetches, o \in SaveOutcomes :
               ( /\ DownloadAudio(resp, o) /\ last'.began /\ ~Rejected(resp)
                 /\ Len(Deserialize(resp.doc)) > MAX_KNOWN_SEQUENCES )
               => ( /\ last'.ret
                    /\ knownSequenceCount' = MAX_KNOWN_SEQUENCES
                    /\ \A i \in 1..MAX_KNOWN_SEQUENCES :
                          knownFiles'[i].audioKey
                              = Deserialize(resp.doc)[i].key )
          /\ ( /\ last = Idle
               /\ last'.op = "initializeAudioFileManager"
               /\ sdPresent /\ jsonFile.wellFormed
               /\ Len(Deserialize(jsonFile.doc)) > MAX_KNOWN_SEQUENCES )
             => ( /\ last'.ret
                  /\ knownSequenceCount' = MAX_KNOWN_SEQUENCES
                  /\ \A i \in 1..MAX_KNOWN_SEQUENCES :
                        knownFiles'[i].audioKey
                            = Deserialize(jsonFile.doc)[i].key )
         ]_vars

\* a registry file with too many members has been loaded
C17_Witness ==
    /\ last.op = "initializeAudioFileManager" /\ last.ret
    /\ knownSequenceCount = MAX_KNOWN_SEQUENCES
    /\ Len(jsonFile.doc) > MAX_KNOWN_SEQUENCES

\* C18: no two records of the registry in memory have the same key.
C18_KeyUnique ==
    \A i, j \in 1..knownSequenceCount :
        i # j => knownFiles[i].audioKey # knownFiles[j].audioKey

\* a text in which key "1" comes twice has been fetched: the record of key
\* "1" holds what came last
C18_Witness ==
    /\ last.op = "downloadAudio" /\ last.began /\ last.ret
    /\ knownSequenceCount = 2
    /\ knownFiles[1].audioKey = "1" /\ knownFiles[1].type = "service"
    /\ knownFiles[2].audioKey = "2"

\* C19: once downloadAudio has saved the registry, a load from the card as
\* it stands succeeds and yields the registry in memory: the same keys in
\* the same order, with the same description, type and path.
C19_RoundTrip ==
    (last.op = "downloadAudio" /\ last.saved)
    => ( /\ LoadKnownSequencesFromSDCard(<<>>, 0, FALSE).ret
         /\ LoadKnownSequencesFromSDCard(<<>>, 0, FALSE).known = knownFiles
         /\ LoadKnownSequencesFromSDCard(<<>>, 0, FALSE).count
               = knownSequenceCount )

\* a registry with a record whose type was defaulted has been saved
C19_Witness ==
    /\ last.op = "downloadAudio" /\ last.saved
    /\ \E i \in 1..knownSequenceCount :
          /\ knownFiles[i].type = TYPE_UNKNOWN
          /\ Len(knownFiles[i].path) > 0

\* C20 (as claimed): getLocalAudioPath returns for a locator the same path
\* on every call, whatever the card holds: for every task of the queue it
\* returns the local path computed when the task was added.
C20_DeterministicPath ==
    \A q \in 0..(downloadQueueCount - 1) :
        GetLocalAudioPath(downloadQueue[q].url, sdCardInitialized).path
            = downloadQueue[q].localPath

\* url gets a name made of its hash
HashNamed(url) == ~HasProperFilename(url)

\* C21 (as claimed): two distinct locators that have the same hash-derived
\* base name are given two distinct local paths: no two tasks of the queue
\* with such locators have the same local path.
C21_HashNamesDistinct ==
    \A p, q \in 0..(downloadQueueCount - 1) :
        ( /\ downloadQueue[p].url # downloadQueue[q].url
          /\ HashNamed(downloadQueue[p].url)
          /\ HashNamed(downloadQueue[q].url)
          /\ BaseFilename(downloadQueue[p].url)
                = BaseFilename(downloadQueue[q].url) )
        => downloadQueue[p].localPath # downloadQueue[q].localPath

\* C22 (as claimed): two tasks of the queue with distinct locators have
\* distinct local paths, and the path processAudioKey returns for a remote
\* audio record names a file downloaded from that record's locator.
C22_CollisionSafe ==
    /\ \A p, q \in 0..(downloadQueueCount - 1) :
          downloadQueue[p].url # downloadQueue[q].url
          => downloadQueue[p].localPath # downloadQueue[q].localPath
    /\ \A i \in 1..knownSequenceCount :
          ( /\ last.op = "processAudioKey"
            /\ last.key = knownFiles[i].audioKey
            /\ \A j \in 1..(i - 1) : knownFiles[j].audioKey # last.key
            /\ knownFiles[i].type = "audio"
            /\ Remote(knownFiles[i].path)
            /\ last.path # NULL )
          => ( /\ last.path \in DOMAIN files
               /\ files[last.path].src = knownFiles[i].path )

\* a character the cleaning loop of urlToFilename writes to the name
Kept(c) == isalnum(c) \/ c = "." \/ c = "-" \/ c = "_" \/ c = " "

\* the whole identifier of url has more than MAX_FILENAME_LENGTH - 1
\* characters
TooLong(url) ==
    /\ HasProperFilename(url)
    /\ Len(SelectSeq(UrlFilename(url), Kept)) > MAX_FILENAME_LENGTH - 1

\* C23 (as claimed): a locator whose identifier has more than
\* MAX_FILENAME_LENGTH - 1 characters is not mapped: addToDownloadQueue of
\* such a locator, with room in the queue, returns false and adds no task.
C23_FailClosed ==
    [][\A i \in 1..knownSequenceCount :
          ( /\ ResolvesRecord(i) /\ last'.added
            /\ ~QueueFull
            /\ TooLong(knownFiles[i].path) )
          => (~last'.addRet /\ UNCHANGED queueVars)]_vars

\* C24 (as claimed): the path processAudioKey returns for a remote audio
\* record names a file that holds the whole payload of a download of the
\* record's locator; a file a transfer left unfinished is not returned.
C24_NoPartialHit ==
    \A i \in 1..knownSequenceCount :
        ( /\ last.op = "processAudioKey"
          /\ last.key = knownFiles[i].audioKey
          /\ \A j \in 1..(i - 1) : knownFiles[j].audioKey # last.key
          /\ knownFiles[i].type = "audio"
          /\ Remote(knownFiles[i].path)
          /\ last.path # NULL
          /\ last.path \in DOMAIN files )
        => files[last.path].complete

\* a step that is a call of clearDownloadQueue
ClearStep == last = Idle /\ last'.op = "clearDownloadQueue"

\* url is in a slot of the array, at or past the count too
InSlot(url) == \E q \in QueueSlots : downloadQueue[q].url = url

\* C25: clearDownloadQueue sets the count and the cursor to zero, so that
\* the three getters tell an empty queue, and changes neither the audio
\* files, nor the registry, nor the registry and mark files; a locator that
\* was queued before is added again by the next request, as task 0.
C25_ClearQueue ==
    [][ /\ ClearStep
           => ( /\ downloadQueueCount' = 0 /\ downloadQueueIndex' = 0
                /\ getDownloadQueueCount' = 0
                /\ getTotalDownloadQueueSize' = 0
                /\ isDownloadQueueEmpty'
                /\ UNCHANGED <<registryVars, sdCardInitialized, envVars>> )
        /\ \A i \in 1..knownSequenceCount :
              ( /\ ResolvesRecord(i) /\ last'.added
                /\ downloadQueueCount = 0
                /\ InSlot(knownFiles[i].path) )
              => ( /\ last'.addRet
                   /\ downloadQueueCount' = 1
                   /\ downloadQueue'[0].url = knownFiles[i].path )
      ]_vars

\* after a clear, a locator of the old queue has been added again while
\* the audio file of an earlier download is still on the card
C25_Witness ==
    /\ last.op = "processAudioKey" /\ last.added /\ last.addRet
    /\ downloadQueueCount = 1 /\ downloadQueueIndex = 0
    /\ downloadQueue[1].url = downloadQueue[0].url
    /\ DOMAIN files # {}

\* a step that is a call of addToDownloadQueue which adds a task
Adds ==
    \E i \in 1..knownSequenceCount :
        /\ ResolvesRecord(i) /\ last'.added /\ last'.addRet
        /\ ~InQueue(knownFiles[i].path)

C29_InProgress ==
    /\ [](\A q \in QueueSlots : ~downloadQueue[q].inProgress)
    /\ [][( /\ DrainStep
            /\ downloadQueueIndex < downloadQueueCount
            /\ wifiConnected
            /\ InitializeSDCard(sdCardInitialized)
            /\ downloadQueue[downloadQueueIndex].inProgress )
          => (~last'.ret /\ UNCHANGED <<queueVars, registryVars, envVars>>)
        ]_vars

\* a call has returned after SD.open of the destination failed
C29_Witness ==
    /\ last.op = "processDownloadQueue" /\ last.attempted
    /\ last.status = 200 /\ ~last.opened
    /\ ~downloadQueue[downloadQueueIndex - 1].inProgress

\* C30 (as claimed): a locator whose only tasks are behind the cursor and
\* whose file is absent is added as a new task by the next processAudioKey
\* of its key, when the queue has room.
C30_RetryAfterFailure ==
    [][\A i \in 1..knownSequenceCount :
          ( /\ ResolvesRecord(i) /\ last'.added
            /\ ~QueueFull
            /\ \E q \in 0..(downloadQueueIndex - 1) :
                  downloadQueue[q].url = knownFiles[i].path
            /\ \A q \in downloadQueueIndex..(downloadQueueCount - 1) :
                  downloadQueue[q].url # knownFiles[i].path )
          => ( /\ last'.addRet
               /\ downloadQueueCount' = downloadQueueCount + 1
               /\ downloadQueue'[downloadQueueCount].url
                     = knownFiles[i].path )]_vars

\* a step that is a call of clearAudioKeys
ClearKeysStep == last = Idle /\ last'.op = "clearAudioKeys"

\* the card can be initialized and works
CardUsable == InitializeSDCard(sdCardInitialized) /\ sdPresent

\* C26 (as claimed): after clearAudioKeys the registry in memory is empty,
\* the registry file and the mark file no longer exist, and the download
\* queue and the audio files are as they were.
C26_ClearRemovesCache ==
    [][ClearKeysStep
       => ( /\ knownSequenceCount' = 0
            /\ jsonFile' = NoFile /\ tsFile' = NoStamp
            /\ UNCHANGED <<queueVars, audioDir, files>> )]_vars

\* C26 (amended): after clearAudioKeys the registry in memory is empty, no
\* key is known and isCacheStale is true; the download queue and the audio
\* files are as they were.  The registry file and the mark file are
\* removed, each if the card can be initialized, works, and its removal
\* succeeds; otherwise they stay on the card.  A later initialize loads
\* nothing when the registry file is gone.
C26_ClearKeys ==
    [][ /\ \A rm \in RemoveOutcomes :
              ClearAudioKeysCall(rm)
              => ( /\ knownSequenceCount' = 0
                   /\ \A key \in Keys : ~hasAudioKey(key)'
                   /\ IsCacheStale(knownSequenceCount,
                                   sdCardInitialized).ret'
                   /\ UNCHANGED <<queueVars, audioDir, files>>
                   /\ jsonFile' = IF CardUsable /\ rm.jsonOk
                                      THEN NoFile ELSE jsonFile
                   /\ tsFile' = IF CardUsable /\ rm.tsOk
                                    THEN NoStamp ELSE tsFile )
        /\ ( /\ last = Idle /\ last'.op = "initializeAudioFileManager"
             /\ jsonFile = NoFile )
           => (~last'.ret /\ knownSequenceCount' = 0)
      ]_vars

\* the registry has been cleared while the card was away: both files are
\* still on it, the queue and the audio files are in place
C26_Witness ==
    /\ last.op = "clearAudioKeys"
    /\ knownSequenceCount = 0
    /\ ~sdPresent
    /\ jsonFile # NoFile /\ tsFile # NoStamp
    /\ downloadQueueCount > 0
    /\ DOMAIN files # {}

\* C28: if from some time on WiFi and the card stay available and nothing
\* more is added (the count stays n), the repeated drain calls bring the
\* cursor to n, where it stays; a call that takes an item and fails moves
\* the cursor by one and leaves the tasks behind it in place.
C28_QueueDrains ==
    /\ \A n \in 0..MAX_DOWNLOAD_QUEUE :
          <>[](wifiConnected /\ sdPresent /\ downloadQueueCount = n)
          => <>[](downloadQueueIndex = n /\ isDownloadQueueEmpty)
    /\ [][(DrainStep /\ last'.attempted /\ ~last'.ret)
          => ( /\ downloadQueueIndex' = downloadQueueIndex + 1
               /\ downloadQueueCount' = downloadQueueCount
               /\ \A q \in downloadQueueIndex'..(downloadQueueCount - 1) :
                     downloadQueue'[q].url = downloadQueue[q].url )]_vars

\* the queue of two tasks is drained: the first download failed and left
\* no file, the second was made all the same
C28_Witness ==
    /\ last.op = "processDownloadQueue" /\ last.attempted
    /\ downloadQueueCount = 2 /\ downloadQueueIndex = 2
    /\ downloadQueue[0].localPath \notin DOMAIN files
    /\ downloadQueue[1].localPath \in DOMAIN files

\* ------------------------------------------------------------------------
\* The chunk loop and the stream
\* ------------------------------------------------------------------------
\* what the stream of one GET can deliver against the length the response
\* declares: the declared bytes on a connection that stays open, a
\* connection cut short, a body of unknown length ended by the close, an
\* empty body, a server that sends more than it declared, by 200 bytes
\* and by one byte, and a body of unknown length (chunked) on a connection
\* that stays open
StreamTransfers ==
    { [payload |-> 300,  declared |-> 300,  bursts |-> <<300>>,
       closes |-> FALSE],
      [payload |-> 2500, declared |-> 2500, bursts |-> <<1000, 1500>>,
       closes |-> FALSE],
      [payload |-> 2500, declared |-> 2500, bursts |-> <<1000>>,
       closes |-> TRUE],
      [payload |-> 2500, declared |-> -1,   bursts |-> <<1500, 1000>>,
       closes |-> TRUE],
      [payload |-> 0,    declared |-> 0,    bursts |-> <<>>,
       closes |-> FALSE],
      [payload |-> 300,  declared |-> 300,  bursts |-> <<500>>,
       closes |-> TRUE],
      [payload |-> 300,  declared |-> 300,  bursts |-> <<301>>,
       closes |-> FALSE],
      [payload |-> 700,  declared |-> -1,   bursts |-> <<700>>,
       closes |-> FALSE] }

StreamDrains ==
    { [mkdirOk |-> TRUE, httpCode |-> 200, openOk |-> TRUE, t |-> t] :
          t \in StreamTransfers }
    \cup { [mkdirOk |-> TRUE, httpCode |-> 404, openOk |-> TRUE,
            t |-> [payload |-> 0, declared |-> 0, bursts |-> <<>>,
                   closes |-> TRUE]] }

\* Transfers: a registry is fetched, two of its keys are resolved and their
\* tasks drained over streams of every kind above.
NextStream ==
    \/ \E resp \in ClearFetches, o \in SavesOk : DownloadAudio(resp, o)
    \/ \E key \in ClearKeys : ProcessAudioKeyCall(key)
    \/ \E o \in StreamDrains : ProcessDownloadQueueCall(o)
    \/ ClearDownloadQueue
    \/ ReturnToLoop
    \/ WiFiChange
    \/ CardChange

SpecStream == Init /\ [][NextStream]_vars

\* C31: when the response declares a content length N >= 0, the transfer
\* loop writes at most N bytes to the destination file, whatever the
\* chunks the stream delivers.
C31_AtMostDeclared ==
    [][\A o \in StreamDrains :
          (ProcessDownloadQueueCall(o) /\ last'.opened /\ o.t.declared >= 0)
          => last'.total <= o.t.declared]_vars

\* C37: every invocation of processDownloadQueue returns, on connections
\* each of which delivers the remaining data or closes.
C37_DrainReturns == last.op = "processDownloadQueue" => ~last.hung

\* ------------------------------------------------------------------------
\* Saving and loading the registry
\* ------------------------------------------------------------------------
\* a step that is a call of downloadAudio which has parsed a payload and
\* has called saveKnownSequencesToSDCard
SaveStep == RefreshStep /\ last'.began /\ last'.ret

\* C32: saveKnownSequencesToSDCard returns true whenever the registry file
\* was written with more than zero bytes, even if the timestamp file cannot
\* be opened (the timestamp on the card is then left as it was); it returns
\* false, and leaves the timestamp file alone, when the card is
\* unavailable, the registry file cannot be opened, or nothing is written.
C32_IndependentMark ==
    [][\A resp \in CacheFetches, o \in SaveOutcomes :
          (DownloadAudio(resp, o) /\ SaveStep)
          => /\ last'.saved <=> (sdPresent /\ o.openOk /\ o.writeOk)
             /\ last'.saved => jsonFile'.length > 0
             /\ (last'.saved /\ o.tsOpenOk) => tsFile' = now
             /\ (last'.saved /\ ~o.tsOpenOk) => tsFile' = tsFile
             /\ ~last'.saved => tsFile' = tsFile]_vars

\* a save has returned true although the timestamp file could not be
\* opened: the registry file is written, the older timestamp is in place
C32_Witness ==
    /\ last.op = "downloadAudio" /\ last.saved
    /\ jsonFile.wellFormed /\ jsonFile.length > 0
    /\ tsFile # NoStamp /\ tsFile # now

\* a step that is a call of initializeAudioFileManager
InitStep == last = Idle /\ last'.op = "initializeAudioFileManager"

\* what makes loadKnownSequencesFromSDCard fail: the card is unavailable,
\* the registry file is missing, empty or damaged
LoadFails ==
    \/ ~sdPresent
    \/ jsonFile = NoFile
    \/ jsonFile.length = 0
    \/ ~jsonFile.wellFormed

\* C33: loadKnownSequencesFromSDCard returns false and leaves
\* knownSequenceCount and knownFiles as they were when the card is
\* unavailable or the registry file is missing, empty or damaged, be the
\* registry that of the state or the one initializeAudioFileManager hands
\* over, which it has reset; a missing timestamp file alone does not make
\* the load fail.
C33_FailedLoadKeeps ==
    [][InitStep
       => LET l == LoadKnownSequencesFromSDCard(knownFiles,
                       knownSequenceCount, sdCardInitialized)
          IN  /\ LoadFails
                 => /\ ~l.ret /\ l.known = knownFiles
                    /\ l.count = knownSequenceCount
                    /\ ~last'.ret
                    /\ knownFiles' = <<>> /\ knownSequenceCount' = 0
              /\ ~LoadFails => (l.ret /\ last'.ret)
              /\ (~LoadFails /\ tsFile = NoStamp)
                 => (last'.ret /\ knownSequenceCount' = l.count)]_vars

\* a load has failed on a damaged registry file
C33_Witness ==
    /\ last.op = "initializeAudioFileManager" /\ ~last.ret
    /\ sdPresent /\ jsonFile # NoFile /\ ~jsonFile.wellFormed
    /\ knownSequenceCount = 0

\* ------------------------------------------------------------------------
\* Identifiers on the card
\* ------------------------------------------------------------------------
\* the file name of a local path below AUDIO_FILES_DIR
NameOf(path) == SubSeq(path, Len(AUDIO_FILES_DIR) + 2, Len(path))

\* a file name that names a file of the directory it is put in
SafeName(f) ==
    /\ Len(f) > 0
    /\ Len(f) <= MAX_FILENAME_LENGTH - 1
    /\ \A i \in 1..Len(f) :
          isalnum(f[i]) \/ f[i] = "." \/ f[i] = "-" \/ f[i] = "_"
    /\ f # <<".">>
    /\ f # <<".", ".">>

\* C34: for every remote locator the file name urlToFilename produces is
\* non-empty, at most MAX_FILENAME_LENGTH - 1 characters long, made of
\* alphanumerics, '.', '-' and '_' only, and neither "." nor "..", so the
\* local path of every task names a file directly inside AUDIO_FILES_DIR.
C34_SafeIdentifier ==
    \A q \in QueueSlots :
        q < downloadQueueCount
        => /\ HasPrefix(downloadQueue[q].localPath,
                        AUDIO_FILES_DIR \o <<"/">>)
           /\ SafeName(NameOf(downloadQueue[q].localPath))

\* C35: every call that replaces or clears the registry
\* (initializeAudioFileManager, downloadAudio once it has a payload to
\* parse, clearAudioKeys) frees the strings of each record the registry
\* held, so that none is leaked.
C35_ReleasedOnce ==
    [][(InitStep \/ ClearKeysStep \/ SaveStep)
       => last'.freed = knownSequenceCount]_vars

\* ------------------------------------------------------------------------
\* The rate limit of the drain
\* ------------------------------------------------------------------------
\* The drain as loop() calls it: a registry is fetched, two of its keys are
\* resolved, and processAudioDownloadQueue is called while the clock runs,
\* round 2^32 too.
NextRate ==
    \/ \E resp \in ClearFetches, o \in SavesOk : DownloadAudio(resp, o)
    \/ \E key \in ClearKeys : ProcessAudioKeyCall(key)
    \/ \E o \in NameDrains : ProcessAudioDownloadQueue(o)
    \/ ReturnToLoop
    \/ Tick
    \/ WiFiChange

SpecRate == Init /\ [][NextRate]_vars

\* a step that is a call of processAudioDownloadQueue
RateStep == last = Idle /\ last'.op = "processAudioDownloadQueue"

\* the milliseconds from t to millis(), a clock that has gone round 2^32
\* since t included
Since(t) ==
    IF U32Ge(now, t) THEN U32Sub(now, t)
    ELSE U32Add(U32Sub(ULONG_MAX, t), U32Add(now, U32(1)))

\* C36: processAudioDownloadQueue forwards to processDownloadQueue at most
\* once per DOWNLOAD_QUEUE_CHECK_INTERVAL_MS: a call made less than the
\* interval after the last forwarded call (lastDownloadCheck) returns false
\* and changes nothing, a call that is forwarded comes no sooner than the
\* interval after the last one and sets lastDownloadCheck, and the elapsed
\* time is right when millis() has gone round 2^32.
C36_RateLimit ==
    [][RateStep
       => /\ U32Lt(Since(lastDownloadCheck),
                   U32(DOWNLOAD_QUEUE_CHECK_INTERVAL_MS))
             => /\ ~last'.forwarded /\ ~last'.ret
                /\ UNCHANGED <<progVars, envVars>>
          /\ U32Ge(Since(lastDownloadCheck),
                   U32(DOWNLOAD_QUEUE_CHECK_INTERVAL_MS))
             => (last'.forwarded /\ lastDownloadCheck' = now)]_vars

\* a call 15 ms after the last forwarded one, millis() having gone round
\* in between, has left a pending task alone
C36_Witness ==
    /\ last.op = "processAudioDownloadQueue" /\ ~last.forwarded
    /\ lastDownloadCheck = <<65535, 65526>> /\ now = U32(5)
    /\ wifiConnected /\ downloadQueueIndex < downloadQueueCount

\* ------------------------------------------------------------------------
\* Restarts
\* ------------------------------------------------------------------------
\* the device restarts (power, ESP.restart()): every variable of the
\* program has its initial value again and millis() starts from 0; the
\* card keeps what it holds
Reboot ==
    /\ boots < MaxBoots
    /\ boots' = boots + 1
    /\ knownFiles' = <<>>
    /\ knownSequenceCount' = 0
    /\ sdCardInitialized' = FALSE
    /\ downloadQueue' = [i \in QueueSlots |-> BlankItem]
    /\ downloadQueueCount' = 0
    /\ downloadQueueIndex' = 0
    /\ lastDownloadCheck' = U32(0)
    /\ now' = U32(0)
    /\ wifiConnected' = FALSE
    /\ gameState' = "WAITING_FOR_PLAYERS"
    /\ player1LastPress' = NoPress
    /\ player2LastPress' = NoPress
    /\ firstPressTime' = U32(0)
    /\ isPlayingAudio' = FALSE
    /\ audioPlayer' = NULL
    /\ isConfigMode' = FALSE
    /\ wifiMode' = "STA"
    /\ connectionLogged' = FALSE
    /\ otaStarted' = FALSE
    /\ connectionStartTime' = U32(0)
    /\ portalStartTime' = U32(0)
    /\ downSince' = U32(0)
    /\ last' = Idle
    /\ UNCHANGED <<sdPresent, audioDir, files, jsonFile, tsFile>>

\* millis() moves on to one of the given readings, without going round
Elapse(readings) ==
    /\ last = Idle
    /\ \E t \in readings : U32Gt(t, now) /\ now' = t
    /\ UNCHANGED <<progVars, wifiConnected, sdPresent, audioDir, files,
                   jsonFile, tsFile, appVars, last>>

\* readings of millis() in the first seconds after a start
UptimeValues == {U32(5), U32(1000), U32(5000)}

\* The cache over restarts: the registry is loaded, refreshed and saved,
\* the device restarts, each time it is up for no more than five seconds.
NextReboot ==
    \/ InitializeAudioFileManager
    \/ \E resp \in ClearFetches, o \in SavesOk : DownloadAudio(resp, o)
    \/ Reboot
    \/ Elapse(UptimeValues)
    \/ ReturnToLoop
    \/ WiFiChange

SpecReboot == Init /\ [][NextReboot]_vars

\* C38: once the registry has been refreshed and saved, it stays fresh over
\* a restart and a reload: downloadAudio() makes no request until the
\* validity window has elapsed since the refresh.  Here no more than
\* (MaxBoots + 1) * 5 seconds have elapsed since any refresh, so a call of
\* downloadAudio with a registry in memory and the timestamp of a save on
\* the card makes no request.
C38_FreshAcrossReboot ==
    [][(RefreshStep /\ wifiConnected /\ knownSequenceCount > 0
        /\ sdPresent /\ tsFile # NoStamp)
       => (~last'.began /\ last'.ret)]_vars

\* ------------------------------------------------------------------------
\* WiFi manager
\* ------------------------------------------------------------------------
\* the timeout of handleWiFiLoop, in milliseconds
CONNECT_TIMEOUT_MS == 30000

\* how startConfigPortalSafe can end: the portal is up, WiFi.mode(WIFI_AP)
\* fails three times, WiFi.softAP fails three times
PortalOutcomes == {"up", "noMode", "noAP"}

\* startConfigPortalSafe(): [ret, mode, config], the return value,
\* WiFi.getMode() and isConfigMode after the call
StartConfigPortalSafe(portal) ==
    IF portal = "noMode"
        THEN [ret |-> FALSE, mode |-> "OFF", config |-> isConfigMode]
    ELSE IF portal = "noAP"
        THEN [ret |-> FALSE, mode |-> "AP", config |-> isConfigMode]
    ELSE [ret |-> TRUE, mode |-> "AP", config |-> TRUE]

\* the last branch of handleWiFiLoop in station mode: the timeout has
\* passed, startConfigPortalSafe has returned p
PortalStarted(p) ==
    /\ otaStarted' = FALSE
    /\ connectionStartTime' = U32(0)
    /\ connectionLogged' = FALSE
    /\ wifiMode' = p.mode
    /\ isConfigMode' = p.config
    /\ portalStartTime' = IF p.ret THEN now ELSE portalStartTime
    /\ last' = [Call("handleWiFiLoop") EXCEPT !.began = TRUE, !.ret = p.ret]
    /\ UNCHANGED <<progVars, envVars, downSince>>

\* a pass of handleWiFiLoop that changes nothing
NoWiFiEvent ==
    /\ last' = Call("handleWiFiLoop")
    /\ UNCHANGED <<progVars, envVars, wifiVars>>

\* handleWiFiLoop() with the answers its calls get: the GET and the save of
\* downloadAudio(), which the connected callback (onWiFiConnected) calls,
\* and the end of startConfigPortalSafe
HandleWiFiLoop(resp, o, portal) ==
    /\ last = Idle
    /\ UNCHANGED <<gameVars, playerVars, boots>>
    /\ IF isConfigMode
          THEN /\ otaStarted' = TRUE
               /\ last' = Call("handleWiFiLoop")
               /\ UNCHANGED <<progVars, envVars, isConfigMode, wifiMode,
                              connectionLogged, connectionStartTime,
                              portalStartTime, downSince>>
       ELSE IF wifiMode # "STA" THEN NoWiFiEvent
       ELSE IF wifiConnected /\ ~connectionLogged
          THEN /\ FetchIfStale(IsCacheStale(knownSequenceCount,
                                            sdCardInitialized), resp, o)
               /\ otaStarted' = TRUE
               /\ connectionLogged' = TRUE
               /\ UNCHANGED <<isConfigMode, wifiMode, connectionStartTime,
                              portalStartTime, downSince>>
       ELSE IF ~wifiConnected /\ connectionStartTime = U32(0)
          THEN /\ connectionStartTime' = now
               /\ last' = Call("handleWiFiLoop")
               /\ UNCHANGED <<progVars, envVars, isConfigMode, wifiMode,
                              connectionLogged, otaStarted, portalStartTime,
                              downSince>>
       ELSE IF /\ ~wifiConnected
               /\ U32Gt(U32Sub(now, connectionStartTime),
                        U32(CONNECT_TIMEOUT_MS))
          THEN PortalStarted(StartConfigPortalSafe(portal))
       ELSE NoWiFiEvent

\* the station gets the network or loses it
StationChange ==
    /\ last = Idle
    /\ IF wifiConnected
          THEN wifiConnected' = FALSE /\ downSince' = now
       ELSE wifiMode = "STA" /\ wifiConnected' = TRUE
            /\ downSince' = Connected
    /\ UNCHANGED <<progVars, now, sdPresent, audioDir, files, jsonFile,
                   tsFile, gameVars, playerVars, isConfigMode, wifiMode,
                   connectionLogged, otaStarted, connectionStartTime,
                   portalStartTime, boots, last>>

\* readings of millis() in the first minutes after a start
WiFiClock == {U32(5000), U32(10000), U32(40000), U32(41000), U32(80000)}

\* The WiFi manager: loop() calls handleWiFiLoop while the clock runs and
\* the station gets and loses the network.
NextWiFi ==
    \/ \E resp \in ClearFetches, o \in SavesOk, portal \in PortalOutcomes :
          HandleWiFiLoop(resp, o, portal)
    \/ StationChange
    \/ Elapse(WiFiClock)
    \/ ReturnToLoop

SpecWiFi == Init /\ [][NextWiFi]_vars

\* a step in which the device leaves station mode for the portal
PortalStep == last = Idle /\ wifiMode = "STA" /\ wifiMode' # "STA"

\* C40: handleWiFiLoop starts the configuration portal, leaving station
\* mode, only when the station has been without the network for more than
\* 30 seconds without a break; a shorter loss of a connection that had
\* been made never brings up the portal.
C40_PortalAfterTimeout ==
    [][PortalStep
       => /\ ~wifiConnected
          /\ downSince # Connected
          /\ U32Gt(U32Sub(now, downSince), U32(CONNECT_TIMEOUT_MS))]_vars

\* ------------------------------------------------------------------------
\* The game and the player
\* ------------------------------------------------------------------------
GAME_TIMEOUT_MS == 60000
YES_SOUND_KEY == "yes"
NO_SOUND_KEY == "no"
LOCKED_IN_SOUND_KEY == "locked_in"

\* the keys of the board
PLAYER_1_YES == 1
PLAYER_2_YES == 2
PLAYER_1_NO == 3
PLAYER_2_NO == 4

\* a registry in which the three sounds are files on the card
P_YES == <<"/","y",".","m","p","3">>
P_NO == <<"/","n",".","m","p","3">>
P_LOCKED == <<"/","k",".","m","p","3">>

DocGame == << Member(YES_SOUND_KEY, All, <<"Y">>, "audio", P_YES),
              Member(NO_SOUND_KEY, All, <<"N">>, "audio", P_NO),
              Member(LOCKED_IN_SOUND_KEY, All, <<"K">>, "audio", P_LOCKED) >>

GameFetches ==
    { [httpCode |-> 200, wellFormed |-> TRUE, length |-> 300,
       doc |-> DocGame] }

\* startAudioPlayback(filePath), called by playAudioByKey after
\* processAudioKey has returned r: [ret, queue, count, init, playing,
\* player], the return value and the new downloadQueue,
\* downloadQueueCount, sdCardInitialized, isPlayingAudio and audioPlayer
StartAudioPlayback(filePath, r) ==
    IF isPlayingAudio
        THEN [ret |-> FALSE, queue |-> r.queue, count |-> r.count,
              init |-> r.init, playing |-> isPlayingAudio,
              player |-> audioPlayer]
    ELSE [ret |-> TRUE, queue |-> r.queue, count |-> r.count,
          init |-> r.init, playing |-> TRUE, player |-> filePath]

\* playAudioByKey(key)
PlayAudioByKey(key) ==
    IF ~hasAudioKey(key)
        THEN [ret |-> FALSE, queue |-> downloadQueue,
              count |-> downloadQueueCount, init |-> sdCardInitialized,
              playing |-> isPlayingAudio, player |-> audioPlayer]
    ELSE IF ProcessAudioKey(key).ret = NULL
        THEN [ret |-> FALSE, queue |-> ProcessAudioKey(key).queue,
              count |-> ProcessAudioKey(key).count,
              init |-> ProcessAudioKey(key).init,
              playing |-> isPlayingAudio, player |-> audioPlayer]
    ELSE StartAudioPlayback(ProcessAudioKey(key).ret, ProcessAudioKey(key))

\* the state after playAudioByKey has returned p
AfterPlay(p) ==
    /\ downloadQueue' = p.queue
    /\ downloadQueueCount' = p.count
    /\ sdCardInitialized' = p.init
    /\ isPlayingAudio' = p.playing
    /\ audioPlayer' = p.player
    /\ UNCHANGED <<registryVars, downloadQueueIndex, lastDownloadCheck,
                   envVars, wifiVars, boots>>

\* a call that has played nothing
NothingPlayed ==
    UNCHANGED <<progVars, envVars, playerVars, wifiVars, boots>>

\* the ButtonPress a pin leaves
Press(pin) ==
    [timestamp |-> now,
     value |-> pin \in {PLAYER_1_YES, PLAYER_2_YES},
     hasPressed |-> TRUE]

\* buttonPressed(active, pin, ptr)
ButtonPressed(pin) ==
    /\ last = Idle
    /\ IF gameState = "PLAYING_SOUND"
          THEN /\ last' = Call("buttonPressed")
               /\ NothingPlayed
               /\ UNCHANGED gameVars
       ELSE /\ firstPressTime' =
                   IF ~player1LastPress.hasPressed
                      /\ ~player2LastPress.hasPressed
                      THEN now ELSE firstPressTime
            /\ player1LastPress' =
                   IF pin \in {PLAYER_1_YES, PLAYER_1_NO}
                      THEN Press(pin) ELSE player1LastPress
            /\ player2LastPress' =
                   IF pin \in {PLAYER_2_YES, PLAYER_2_NO}
                      THEN Press(pin) ELSE player2LastPress
            /\ UNCHANGED gameState
            /\ IF /\ ~player1LastPress.hasPressed
                  /\ ~player2LastPress.hasPressed
                  /\ ~(player1LastPress'.hasPressed
                       /\ player2LastPress'.hasPressed)
                  THEN /\ AfterPlay(PlayAudioByKey(LOCKED_IN_SOUND_KEY))
                       /\ last' = [Call("buttonPressed") EXCEPT
                              !.key = LOCKED_IN_SOUND_KEY,
                              !.ret = PlayAudioByKey(LOCKED_IN_SOUND_KEY).ret]
               ELSE /\ NothingPlayed
                    /\ last' = Call("buttonPressed")

\* abs((long)(a - b)) of two unsigned long
AbsDiff(a, b) ==
    IF U32Sub(a, b)[1] >= 32768 THEN U32Sub(U32(0), U32Sub(a, b))
    ELSE U32Sub(a, b)

\* the sound processGame plays when both players have pressed
OutcomeKey ==
    IF ~player1LastPress.value \/ ~player2LastPress.value
        THEN NO_SOUND_KEY
    ELSE IF ~U32Gt(AbsDiff(player1LastPress.timestamp,
                           player2LastPress.timestamp),
                   U32(GAME_TIMEOUT_MS))
        THEN YES_SOUND_KEY
    ELSE NO_SOUND_KEY

\* resetGame()
ResetGame ==
    /\ player1LastPress' = NoPress
    /\ player2LastPress' = NoPress
    /\ firstPressTime' = U32(0)
    /\ gameState' = "WAITING_FOR_PLAYERS"

\* processGame has played the sound of key
Played(key) ==
    /\ AfterPlay(PlayAudioByKey(key))
    /\ gameState' = "PLAYING_SOUND"
    /\ last' = [Call("processGame") EXCEPT
                   !.key = key, !.ret = PlayAudioByKey(key).ret]
    /\ UNCHANGED <<player1LastPress, player2LastPress, firstPressTime>>

\* a pass of processGame that changes nothing
NoGameEvent ==
    /\ last' = Call("processGame")
    /\ NothingPlayed
    /\ UNCHANGED gameVars

\* processGame()
ProcessGame ==
    /\ last = Idle
    /\ IF gameState = "WAITING_FOR_PLAYERS"
          THEN IF player1LastPress.hasPressed /\ player2LastPress.hasPressed
                  THEN Played(OutcomeKey)
               ELSE IF /\ player1LastPress.hasPressed
                          \/ player2LastPress.hasPressed
                       /\ firstPressTime # U32(0)
                       /\ U32Gt(U32Sub(now, firstPressTime),
                                U32(GAME_TIMEOUT_MS))
                  THEN Played(NO_SOUND_KEY)
               ELSE NoGameEvent
       ELSE IF gameState = "PLAYING_SOUND" /\ ~isPlayingAudio
          THEN /\ ResetGame
               /\ last' = Call("processGame")
               /\ NothingPlayed
       ELSE NoGameEvent

\* the action of the RESET_GAME key
ResetButton ==
    /\ last = Idle
    /\ ResetGame
    /\ last' = Call("resetGame")
    /\ NothingPlayed

\* processAudioFile(), active being audioPlayer->isActive() after the copy
ProcessAudioFile(active) ==
    /\ last = Idle
    /\ isPlayingAudio' = (isPlayingAudio /\ active)
    /\ last' = [Call("processAudioFile") EXCEPT
                   !.ret = isPlayingAudio /\ active]
    /\ UNCHANGED <<progVars, envVars, audioPlayer, gameVars, wifiVars,
                   boots>>

\* readings of millis() during a round
GameClock == {U32(1000), U32(5000), U32(70000)}

\* The game: the registry with the three sounds is fetched, the players
\* press their keys, loop() plays and goes through processGame while the
\* clock runs.
NextGame ==
    \/ \E resp \in GameFetches, o \in SavesOk : DownloadAudio(resp, o)
    \/ \E pin \in {PLAYER_1_YES, PLAYER_2_YES, PLAYER_1_NO, PLAYER_2_NO} :
          ButtonPressed(pin)
    \/ ProcessGame
    \/ \E active \in BOOLEAN : ProcessAudioFile(active)
    \/ ResetButton
    \/ Elapse(GameClock)
    \/ ReturnToLoop
    \/ WiFiChange

SpecGame == Init /\ [][NextGame]_vars

\* a step that is a call of processGame
GameStep == last = Idle /\ last'.op = "processGame"

\* the three sound keys resolve to files on the card
SoundsResolve ==
    \A key \in {YES_SOUND_KEY, NO_SOUND_KEY, LOCKED_IN_SOUND_KEY} :
        hasAudioKey(key) /\ ProcessAudioKey(key).ret # NULL

\* the two presses are no more than GAME_TIMEOUT_MS apart
InTime ==
    \/ /\ U32Ge(player1LastPress.timestamp, player2LastPress.timestamp)
       /\ ~U32Gt(U32Sub(player1LastPress.timestamp,
                        player2LastPress.timestamp), U32(GAME_TIMEOUT_MS))
    \/ /\ U32Ge(player2LastPress.timestamp, player1LastPress.timestamp)
       /\ ~U32Gt(U32Sub(player2LastPress.timestamp,
                        player1LastPress.timestamp), U32(GAME_TIMEOUT_MS))

\* C39: in every round in which both players have pressed, the playback of
\* the outcome sound (YES when both pressed YES within GAME_TIMEOUT_MS of
\* each other, NO otherwise) is started before the game goes back to
\* WAITING_FOR_PLAYERS, the sound keys resolving to files: the pass of
\* processGame that finds both presses is the only place of the round
\* where the outcome sound is played, and it starts the playback.
C39_OutcomeSound ==
    [][(/\ GameStep
        /\ gameState = "WAITING_FOR_PLAYERS"
        /\ player1LastPress.hasPressed /\ player2LastPress.hasPressed
        /\ SoundsResolve)
       => /\ last'.ret
          /\ isPlayingAudio'
          /\ audioPlayer' =
                IF player1LastPress.value /\ player2LastPress.value
                   /\ InTime
                   THEN P_YES ELSE P_NO]_vars

====
